---- MODULE Spec2Model ----
(***************************************************************************)
(* Document QA system: the vector index manager (VectorStoreManager) and   *)
(* the retrieval orchestrator (RAGChain) as a state machine.               *)
(*                                                                         *)
(* The persisted Chroma collection, the embedding model and the language   *)
(* model are external collaborators.  They are modelled at the call sites  *)
(* of the source: every call either returns what the collaborator's        *)
(* interface promises or raises, the choice being an input of the action.  *)
(* A batch insert is atomic: a call that raises inserts nothing.           *)
(***************************************************************************)
EXTENDS Integers, Sequences, FiniteSets, TLC

VARIABLES
    records,        \* the records of the persisted collection, in insertion order
    exists,         \* whether the named collection exists at the persist location
    vector_store,   \* VectorStoreManager.vector_store: "none", "live" or "stale"
    rag_chain,      \* the RAGChain in use: NoChain or [k_documents, retriever]
    chat_history,   \* st.session_state.chat_history of the application's session
    session,        \* st.session_state: the flags and settings of the session
    last            \* the call the caller is holding the result of: its arguments,
                    \* what it returned and what it saw; Idle between calls

vars == <<records, exists, vector_store, rag_chain, chat_history, session, last>>

----------------------------------------------------------------------------
(* Bounds of the model *)

MaxIndex == 4       \* most records ever held by the collection
MaxDocs == 3        \* longest chunk sequence handed to add_documents
MaxBatch == 3       \* largest batch_size tried
MaxK == 3           \* largest k tried
MaxQuestions == 2   \* longest question list handed to batch_query
MaxHistory == 2     \* most entries of chat_history
MaxUpload == 2      \* most chunks the application's own uploads put in the index
MaxText == 5        \* longest document text handed to the chunker alone
MaxPairText == 2    \* longest document text in a batch of two documents
MaxChunkSize == 4   \* largest chunk_size the chunker is configured with
MaxMergeText == 4   \* longest text whose merge loop is followed step by step
MaxFiles == 2       \* most entries of a directory that is loaded
MaxStores == 3      \* most Chroma objects one session's managers create

----------------------------------------------------------------------------
(* Data *)

ChunkA == [source_file |-> "a.txt", chunk_id |-> 0, page_content |-> "alpha"]
ChunkB == [source_file |-> "b.txt", chunk_id |-> 1, page_content |-> "beta"]
Chunks == {ChunkA, ChunkB}

SeqsUpTo(S, n) == UNION {[1..m -> S] : m \in 0..n}

DocumentLists == SeqsUpTo(Chunks, MaxDocs)

\* batch_size is any integer the caller passes: negative, zero, positive
BatchSizes == (-1)..MaxBatch

\* "" and "  " are the blank questions; "about a" is nearest to a.txt's chunks
Questions == {"", "  ", "about a", "about b"}

\* the questions handed to batch_query
BatchQuestions == {"  ", "about b"}

\* the queries handed to the manager's searches
Queries == {"about a", "about b"}

\* filter_dict: None, or a mapping from metadata keys to wanted values
NoFilter == [none |-> TRUE]
MetaKeys == {"source_file", "chunk_id"}
FilterDicts ==
    {[x \in {} |-> 0]}
    \cup {[k \in {"source_file"} |-> v] : v \in {"a.txt", "c.txt"}}
    \cup {[k \in {"chunk_id"} |-> v] : v \in {1}}
    \cup {[k \in MetaKeys |-> IF k = "source_file" THEN f ELSE 0] :
             f \in {"a.txt", "b.txt"}}
Filters == {NoFilter} \cup FilterDicts

Min(a, b) == IF a < b THEN a ELSE b

IsPrefix(s, t) == Len(s) <= Len(t) /\ SubSeq(t, 1, Len(s)) = s

\* Python's seq[i:j] for 0 <= i, on a 1-based sequence
Slice(s, i, j) == SubSeq(s, i + 1, Min(j, Len(s)))

\* Python truthiness of Optional[Dict]: None and {} are falsy
Truthy(filter_dict) == filter_dict # NoFilter /\ DOMAIN filter_dict # {}

----------------------------------------------------------------------------
(* The ANN backend (Chroma) at its call sites *)

\* A handle works only while it is bound to the collection that exists now
Usable(handle) == handle = "live" /\ exists

Exc == [exc |-> TRUE]
Val(v) == [exc |-> FALSE, val |-> v]

\* Chroma(collection_name, embedding_function, persist_directory):
\* get-or-create of the named collection: a handle on the collection and the
\* records it holds, which are the ones it held (none if it was just created)
BackendOpen(recs, fail) ==
    IF fail THEN Exc ELSE Val([handle |-> "live", records |-> recs])

\* collection.count()
BackendCount(handle, recs, fail) ==
    IF fail \/ ~Usable(handle) THEN Exc ELSE Val(Len(recs))

\* vector_store.add_documents(batch): appends the batch, or raises and adds nothing
BackendInsert(handle, recs, batch, fail) ==
    IF fail \/ ~Usable(handle) THEN Exc ELSE Val(recs \o batch)

\* exact metadata equality on every key of the filter
Matches(doc, filter_dict) ==
    filter_dict = NoFilter \/ \A key \in DOMAIN filter_dict : doc[key] = filter_dict[key]

\* distance of a chunk's embedding from the query's: smaller is nearer
Distance(query, doc) ==
    IF query = "about a" /\ doc.source_file = "a.txt" THEN 0
    ELSE IF query = "about b" /\ doc.source_file = "b.txt" THEN 0
    ELSE 1

\* nearest first; equal distances keep insertion order
Ranked(query, recs) ==
    SelectSeq(recs, LAMBDA d : Distance(query, d) = 0)
        \o SelectSeq(recs, LAMBDA d : Distance(query, d) = 1)

\* vector_store.similarity_search(query, k, filter): the k nearest matching records
BackendSearch(handle, recs, query, k, filter_dict, fail) ==
    IF fail \/ ~Usable(handle) THEN Exc
    ELSE LET hits == Ranked(query, SelectSeq(recs, LAMBDA d : Matches(d, filter_dict)))
         IN Val(SubSeq(hits, 1, Min(k, Len(hits))))

\* similarity (higher is more similar) of a hit, as returned beside the document
Similarity(query, doc) == 1 - Distance(query, doc)

----------------------------------------------------------------------------
(* VectorStoreManager *)

Ret(v) == [raised |-> FALSE, value |-> v]
Raise == [raised |-> TRUE, value |-> "exception"]

\* _load_or_create_vector_store: f1, fc, f2 say whether the first Chroma(...),
\* collection.count() and the second Chroma(...) (in the except branch) raise.
\* Returns whether an exception escapes, the manager's handle afterwards, whether
\* a Chroma(...) call went through (the collection exists then), how many
\* Chroma(...) calls were made, and the records of the collection.
\* (below it: the same, but opening a collection that starts empty)
LoadOrCreateVectorStoreFresh(handle, recs, f1, fc, f2) ==
    LET first == BackendOpen(<<>>, f1) IN
    IF ~first.exc /\ ~fc
    THEN [raised |-> FALSE, vector_store |-> first.val.handle, opened |-> TRUE,
          calls |-> 1, records |-> first.val.records]
    ELSE LET second == BackendOpen(<<>>, f2)
         IN IF second.exc
            THEN [raised |-> TRUE,
                  vector_store |-> IF first.exc THEN handle ELSE first.val.handle,
                  opened |-> ~first.exc, calls |-> 2, records |-> recs]
            ELSE [raised |-> FALSE, vector_store |-> second.val.handle,
                  opened |-> TRUE, calls |-> 2, records |-> second.val.records]

LoadOrCreateVectorStore(handle, recs, f1, fc, f2) ==
    LET first == BackendOpen(recs, f1) IN
    IF ~first.exc /\ ~fc
    THEN [raised |-> FALSE, vector_store |-> first.val.handle, opened |-> TRUE,
          calls |-> 1, records |-> first.val.records]
    ELSE \* except Exception: a second Chroma(...), outside any try
         LET second == BackendOpen(recs, f2)
         IN IF second.exc
            THEN [raised |-> TRUE,
                  vector_store |-> IF first.exc THEN handle ELSE first.val.handle,
                  opened |-> ~first.exc, calls |-> 2, records |-> recs]
            ELSE [raised |-> FALSE, vector_store |-> second.val.handle,
                  opened |-> TRUE, calls |-> 2, records |-> second.val.records]

\* as GetDocumentCount, but without the except clause
GetDocumentCountNoExcept(handle, recs, fail) ==
    IF handle = "none" THEN Ret(0)
    ELSE LET r == BackendCount(handle, recs, fail)
         IN IF r.exc THEN Raise ELSE Ret(r.val)

\* get_document_count
GetDocumentCount(handle, recs, fail) ==
    IF handle = "none" THEN Ret(0)
    ELSE LET r == BackendCount(handle, recs, fail)
         IN IF r.exc THEN Ret(0) ELSE Ret(r.val)

\* the batch loop of add_documents, for batch_size > 0, from start index i:
\* one vector_store.add_documents(batch) per batch, the batch numbered failBatch
\* raising (0: none does).  sent is what was handed to the backend so far.
RECURSIVE AddBatches(_, _, _, _, _, _, _, _)

\* as AddBatches, but a batch that raises does not end the loop
AddBatchesContinue(handle, recs, documents, batch_size, i, failBatch, calls, sent) ==
    IF i >= Len(documents)
    THEN [exc |-> FALSE, records |-> recs, calls |-> calls, sent |-> sent,
          failed |-> 0]
    ELSE LET batch == Slice(documents, i, i + batch_size)
             r == BackendInsert(handle, recs, batch, failBatch = calls + 1)
             rest == AddBatches(handle, IF r.exc THEN recs ELSE r.val, documents,
                                batch_size, i + batch_size, failBatch, calls + 1,
                                sent \o batch)
         IN [rest EXCEPT !.exc = rest.exc \/ r.exc,
                         !.failed = IF r.exc THEN calls + 1 ELSE rest.failed]

\* as AddBatches, but a chunk whose content the index holds is not sent again
AddBatchesDedup(handle, recs, documents, batch_size, i, failBatch, calls, sent) ==
    IF i >= Len(documents)
    THEN [exc |-> FALSE, records |-> recs, calls |-> calls, sent |-> sent,
          failed |-> 0]
    ELSE LET batch == SelectSeq(Slice(documents, i, i + batch_size),
                                LAMBDA d : \A n \in 1..Len(recs) : recs[n] # d)
             r == BackendInsert(handle, recs, batch, failBatch = calls + 1)
         IN IF r.exc
            THEN [exc |-> TRUE, records |-> recs, calls |-> calls + 1,
                  sent |-> sent \o batch, failed |-> calls + 1]
            ELSE AddBatches(handle, r.val, documents, batch_size, i + batch_size,
                            failBatch, calls + 1, sent \o batch)

\* as AddBatches, but a last batch shorter than batch_size is not sent
AddBatchesFullOnly(handle, recs, documents, batch_size, i, failBatch, calls, sent) ==
    IF i + batch_size > Len(documents)
    THEN [exc |-> FALSE, records |-> recs, calls |-> calls, sent |-> sent,
          failed |-> 0]
    ELSE LET batch == Slice(documents, i, i + batch_size)
             r == BackendInsert(handle, recs, batch, failBatch = calls + 1)
         IN IF r.exc
            THEN [exc |-> TRUE, records |-> recs, calls |-> calls + 1,
                  sent |-> sent \o batch, failed |-> calls + 1]
            ELSE AddBatches(handle, r.val, documents, batch_size, i + batch_size,
                            failBatch, calls + 1, sent \o batch)

AddBatches(handle, recs, documents, batch_size, i, failBatch, calls, sent) ==
    IF i >= Len(documents)
    THEN [exc |-> FALSE, records |-> recs, calls |-> calls, sent |-> sent,
          failed |-> 0]
    ELSE LET batch == Slice(documents, i, i + batch_size)
             r == BackendInsert(handle, recs, batch, failBatch = calls + 1)
         IN IF r.exc
            THEN [exc |-> TRUE, records |-> recs, calls |-> calls + 1,
                  sent |-> sent \o batch, failed |-> calls + 1]
            ELSE AddBatches(handle, r.val, documents, batch_size, i + batch_size,
                            failBatch, calls + 1, sent \o batch)

\* as BatchLoop, but the batches go into a collection emptied first
BatchLoopFresh(handle, recs, documents, batch_size, failBatch) ==
    IF batch_size = 0
    THEN [exc |-> TRUE, records |-> recs, calls |-> 0, sent |-> <<>>, failed |-> 0]
    ELSE IF batch_size < 0
    THEN [exc |-> FALSE, records |-> recs, calls |-> 0, sent |-> <<>>, failed |-> 0]
    ELSE AddBatches(handle, <<>>, documents, batch_size, 0, failBatch, 0, <<>>)

\* range(0, len(documents), batch_size): step 0 raises ValueError, a negative
\* step gives the empty range, so the loop body never runs
BatchLoop(handle, recs, documents, batch_size, failBatch) ==
    IF batch_size = 0
    THEN [exc |-> TRUE, records |-> recs, calls |-> 0, sent |-> <<>>, failed |-> 0]
    ELSE IF batch_size < 0
    THEN [exc |-> FALSE, records |-> recs, calls |-> 0, sent |-> <<>>, failed |-> 0]
    ELSE AddBatches(handle, recs, documents, batch_size, 0, failBatch, 0, <<>>)

\* add_documents: c1 and c2 say whether the count before and after the loop raises
\* inside get_document_count, failBatch which batch insert raises
AddDocuments(handle, recs, documents, batch_size, c1, failBatch, c2) ==
    IF documents = <<>>
    THEN [raised |-> FALSE, value |-> [success |-> FALSE, error |-> "No documents"],
          records |-> recs, calls |-> 0, sent |-> <<>>, failed |-> 0]
    ELSE LET initial == GetDocumentCount(handle, recs, c1)
             loop == BatchLoop(handle, recs, documents, batch_size, failBatch)
             final == GetDocumentCount(handle, loop.records, c2)
             outcome == [records |-> IF initial.raised THEN recs ELSE loop.records,
                         calls |-> IF initial.raised THEN 0 ELSE loop.calls,
                         sent |-> IF initial.raised THEN <<>> ELSE loop.sent,
                         failed |-> IF initial.raised THEN 0 ELSE loop.failed]
         IN IF initial.raised \/ loop.exc \/ final.raised
            THEN \* except Exception as e
                 [raised |-> FALSE,
                  value |-> [success |-> FALSE,
                             error |-> IF ~initial.raised /\ batch_size = 0
                                       THEN "range() arg 3 must not be zero"
                                       ELSE "backend failure"]]
                    @@ outcome
            ELSE [raised |-> FALSE,
                  value |-> [success |-> TRUE,
                             documents_added |-> final.value - initial.value,
                             total_documents |-> final.value]]
                    @@ outcome

\* as SimilaritySearch, but k is not handed to the backend's search
SimilaritySearchAll(handle, recs, query, k, filter_dict, fail) ==
    IF handle = "none" THEN Ret(<<>>)
    ELSE LET r == IF Truthy(filter_dict)
                  THEN BackendSearch(handle, recs, query, Len(recs), filter_dict, fail)
                  ELSE BackendSearch(handle, recs, query, Len(recs), NoFilter, fail)
         IN IF r.exc THEN Ret(<<>>) ELSE Ret(r.val)

\* as SimilaritySearch, but filter_dict is not handed to the backend's search
SimilaritySearchUnfiltered(handle, recs, query, k, filter_dict, fail) ==
    IF handle = "none" THEN Ret(<<>>)
    ELSE LET r == BackendSearch(handle, recs, query, k, NoFilter, fail)
         IN IF r.exc THEN Ret(<<>>) ELSE Ret(r.val)

\* as SimilaritySearch, but without the except clause
SimilaritySearchNoExcept(handle, recs, query, k, filter_dict, fail) ==
    IF handle = "none" THEN Ret(<<>>)
    ELSE LET r == IF Truthy(filter_dict)
                  THEN BackendSearch(handle, recs, query, k, filter_dict, fail)
                  ELSE BackendSearch(handle, recs, query, k, NoFilter, fail)
         IN IF r.exc THEN Raise ELSE Ret(r.val)

\* similarity_search
SimilaritySearch(handle, recs, query, k, filter_dict, fail) ==
    IF handle = "none" THEN Ret(<<>>)
    ELSE LET r == IF Truthy(filter_dict)
                  THEN BackendSearch(handle, recs, query, k, filter_dict, fail)
                  ELSE BackendSearch(handle, recs, query, k, NoFilter, fail)
         IN IF r.exc THEN Ret(<<>>) ELSE Ret(r.val)

\* similarity_search_with_score: the same retrieval, each hit paired with its score
SimilaritySearchWithScore(handle, recs, query, k, filter_dict, fail) ==
    IF handle = "none" THEN Ret(<<>>)
    ELSE LET r == IF Truthy(filter_dict)
                  THEN BackendSearch(handle, recs, query, k, filter_dict, fail)
                  ELSE BackendSearch(handle, recs, query, k, NoFilter, fail)
         IN IF r.exc THEN Ret(<<>>)
            ELSE Ret([i \in 1..Len(r.val) |-> <<r.val[i], Similarity(query, r.val[i])>>])

\* clear_vector_store: fd says whether delete_collection raises; f1, fc, f2 are
\* handed to _load_or_create_vector_store
\* Returns the value, whether the collection was deleted, and the manager's
\* handle, the collection's existence and its records afterwards.
\* (below it: the same, but without the delete_collection call)
ClearVectorStoreReload(handle, recs, fd, f1, fc, f2) ==
    IF handle = "none" \/ fd \/ ~Usable(handle)
    THEN [raised |-> FALSE, value |-> FALSE, deleted |-> FALSE,
          vector_store |-> handle, exists |-> exists, records |-> recs]
    ELSE LET r == LoadOrCreateVectorStore(handle, recs, f1, fc, f2)
         IN [raised |-> FALSE, value |-> ~r.raised, deleted |-> FALSE,
             vector_store |-> r.vector_store, exists |-> exists, records |-> r.records]

ClearVectorStore(handle, recs, fd, f1, fc, f2) ==
    IF handle = "none" \/ fd \/ ~Usable(handle)
    THEN \* delete_collection raised: except Exception, return False
         [raised |-> FALSE, value |-> FALSE, deleted |-> FALSE,
          vector_store |-> handle, exists |-> exists, records |-> recs]
    ELSE \* the collection is gone and the handle on it is stale
         LET r == LoadOrCreateVectorStore("stale", <<>>, f1, fc, f2)
         IN [raised |-> FALSE, value |-> ~r.raised, deleted |-> TRUE,
             vector_store |-> r.vector_store, exists |-> r.opened,
             records |-> r.records]

\* the sample of get_statistics holds at most this many records
StatSampleSize == 100

SourceFilesOf(docs) == {docs[i].source_file : i \in 1..Len(docs)}

\* get_statistics: fc says whether the count raises, fs whether the sample search does
GetStatistics(handle, recs, fc, fs) ==
    IF handle = "none" THEN Ret([error |-> "Vector store not initialized"])
    ELSE LET doc_count == GetDocumentCount(handle, recs, fc)
         IN IF doc_count.raised THEN Ret([error |-> "backend failure"])
            ELSE IF doc_count.value > 0
            THEN LET sample == BackendSearch(handle, recs, "test",
                                             Min(StatSampleSize, doc_count.value),
                                             NoFilter, fs)
                 IN IF sample.exc THEN Ret([error |-> "backend failure"])
                    ELSE Ret([total_documents |-> doc_count.value,
                              unique_source_files |->
                                  Cardinality(SourceFilesOf(sample.val)),
                              source_files |-> SourceFilesOf(sample.val)])
            ELSE Ret([total_documents |-> doc_count.value,
                      unique_source_files |-> 0,
                      source_files |-> {}])

----------------------------------------------------------------------------
(* RAGChain *)

NoChain == [none |-> TRUE]

\* question.strip() on the questions of the model
Strip(question) == IF question = "  " THEN "" ELSE question

\* as Blank, without the strip(): only the empty string is blank
BlankEmptyOnly(question) == question = ""

\* not question or not question.strip()
Blank(question) == question = "" \/ Strip(question) = ""

\* RAGChain.__init__: the retriever is bound to the Chroma object the manager
\* holds at construction; fail says whether building the ChatGroq client raises
NewRAGChain(handle, k_documents, fail) ==
    IF fail \/ handle = "none" THEN Raise
    ELSE Ret([k_documents |-> k_documents, retriever |-> handle])

\* retriever.invoke(question)
Retrieve(chain, recs, question, fail) ==
    BackendSearch(chain.retriever, recs, question, chain.k_documents, NoFilter, fail)

\* _format_docs: "[Source i: file]\ncontent\n" per document, rank from 1
FormatDocs(docs) ==
    [i \in 1..Len(docs) |-> <<"Source", i, docs[i].source_file, docs[i].page_content>>]

\* _format_sources; the contents of the model are shorter than the 200
\* characters of a preview, so a preview is the content and the ellipsis
FormatSources(documents) ==
    [i \in 1..Len(documents) |->
        [index |-> i,
         file |-> documents[i].source_file,
         chunk_id |-> documents[i].chunk_id,
         preview |-> <<documents[i].page_content, "...">>,
         full_content |-> documents[i].page_content]]

\* the language model as a deterministic stub: the text it generates for a
\* prompt, as the sequence of the fragments it would stream
LLMFragments(context, question) ==
    <<question>> \o [i \in 1..Len(context) |-> context[i][4]]

\* the fragments of a stream put together, as the caller's full_response += chunk
\* does and as StrOutputParser does for a completion that is not streamed
RECURSIVE Join(_)
Join(fragments) ==
    IF fragments = <<>> THEN "" ELSE Head(fragments) \o Join(Tail(fragments))

\* as ChainInvoke, but the prompt is rendered without the retrieved context
ChainInvokeNoContext(chain, recs, question, fr, fl) ==
    LET docs == Retrieve(chain, recs, question, fr)
    IN IF docs.exc THEN Exc @@ [retrievals |-> 1, generations |-> 0]
       ELSE IF fl THEN Exc @@ [retrievals |-> 1, generations |-> 1]
       ELSE Val(Join(LLMFragments(<<>>, question)))
                @@ [retrievals |-> 1, generations |-> 1, context |-> FormatDocs(docs.val)]

\* chain.invoke(question): retrieve, format, prompt, generate; fr and fl say
\* whether the retrieval and the model call raise
ChainInvoke(chain, recs, question, fr, fl) ==
    LET docs == Retrieve(chain, recs, question, fr)
    IN IF docs.exc THEN Exc @@ [retrievals |-> 1, generations |-> 0]
       ELSE IF fl THEN Exc @@ [retrievals |-> 1, generations |-> 1]
       ELSE Val(Join(LLMFragments(FormatDocs(docs.val), question)))
                @@ [retrievals |-> 1, generations |-> 1, context |-> FormatDocs(docs.val)]

\* query: fr1 is the retrieval made for the sources, fr2 and fl belong to chain.invoke
Query(chain, recs, question, return_sources, fr1, fr2, fl) ==
    IF Blank(question)
    THEN Ret([success |-> FALSE, error |-> "Empty question provided"])
            @@ [retrievals |-> 0, generations |-> 0]
    ELSE LET retrieved == IF return_sources THEN Retrieve(chain, recs, question, fr1)
                          ELSE Val(<<>>)
             n1 == IF return_sources THEN 1 ELSE 0
             answer == ChainInvoke(chain, recs, question, fr2, fl)
         IN IF retrieved.exc
            THEN Ret([success |-> FALSE, question |-> question,
                      error |-> "retrieval failure"])
                    @@ [retrievals |-> n1, generations |-> 0]
            ELSE IF answer.exc
            THEN Ret([success |-> FALSE, question |-> question,
                      error |-> "chain failure"])
                    @@ [retrievals |-> n1 + answer.retrievals,
                        generations |-> answer.generations]
            ELSE Ret([success |-> TRUE, question |-> question, answer |-> answer.val]
                        @@ (IF return_sources
                            THEN [sources |-> FormatSources(retrieved.val),
                                  num_sources |-> Len(retrieved.val)]
                            ELSE <<>>))
                    @@ [retrievals |-> n1 + answer.retrievals,
                        generations |-> answer.generations,
                        context |-> answer.context]

ErrorFragment == "Error: backend failure"

\* as StreamQuery, but a failure discards the fragments yielded before it
StreamQueryErrorOnly(chain, recs, question, fr, failAfter) ==
    IF Blank(question)
    THEN Ret(<<"Error: Empty question provided">>)
            @@ [retrievals |-> 0, generations |-> 0, failed |-> FALSE]
    ELSE LET docs == Retrieve(chain, recs, question, fr)
         IN IF docs.exc
            THEN Ret(<<ErrorFragment>>)
                    @@ [retrievals |-> 1, generations |-> 0, failed |-> TRUE]
            ELSE LET out == LLMFragments(FormatDocs(docs.val), question)
                 IN IF failAfter >= 0 /\ failAfter <= Len(out)
                    THEN Ret(<<ErrorFragment>>)
                            @@ [retrievals |-> 1, generations |-> 1, failed |-> TRUE,
                                context |-> FormatDocs(docs.val)]
                    ELSE Ret(out)
                            @@ [retrievals |-> 1, generations |-> 1, failed |-> FALSE,
                                context |-> FormatDocs(docs.val)]

\* stream_query, consumed to its end: fr says whether the retrieval raises,
\* failAfter after how many fragments the model's stream raises (-1: never)
StreamQuery(chain, recs, question, fr, failAfter) ==
    IF Blank(question)
    THEN Ret(<<"Error: Empty question provided">>)
            @@ [retrievals |-> 0, generations |-> 0, failed |-> FALSE]
    ELSE LET docs == Retrieve(chain, recs, question, fr)
         IN IF docs.exc
            THEN Ret(<<ErrorFragment>>)
                    @@ [retrievals |-> 1, generations |-> 0, failed |-> TRUE]
            ELSE LET out == LLMFragments(FormatDocs(docs.val), question)
                 IN IF failAfter >= 0 /\ failAfter <= Len(out)
                    THEN Ret(SubSeq(out, 1, failAfter) \o <<ErrorFragment>>)
                            @@ [retrievals |-> 1, generations |-> 1, failed |-> TRUE,
                                context |-> FormatDocs(docs.val)]
                    ELSE Ret(out)
                            @@ [retrievals |-> 1, generations |-> 1, failed |-> FALSE,
                                context |-> FormatDocs(docs.val)]

\* as BatchQuery, but a failure is reported once, not per question
BatchQuerySingleError(chain, recs, questions, return_sources, fb, failSource) ==
    LET answers == [i \in 1..Len(questions) |->
                        ChainInvoke(chain, recs, questions[i], FALSE, FALSE)]
        docs == [i \in 1..Len(questions) |->
                        Retrieve(chain, recs, questions[i], failSource = i)]
        failed ==
            \/ fb
            \/ \E i \in 1..Len(questions) : answers[i].exc
            \/ return_sources /\ \E i \in 1..Len(questions) : docs[i].exc
    IN IF failed
       THEN Ret(<<[success |-> FALSE, error |-> "batch failure"]>>)
       ELSE Ret([i \in 1..Len(questions) |->
                    [success |-> TRUE, question |-> questions[i],
                     answer |-> answers[i].val]
                    @@ (IF return_sources
                        THEN [sources |-> FormatSources(docs[i].val),
                              num_sources |-> Len(docs[i].val)]
                        ELSE <<>>)])

\* batch_query: fb says whether chain.batch raises, failSource which of the
\* per-question source retrievals raises (0: none)
BatchQuery(chain, recs, questions, return_sources, fb, failSource) ==
    LET answers == [i \in 1..Len(questions) |->
                        ChainInvoke(chain, recs, questions[i], FALSE, FALSE)]
        docs == [i \in 1..Len(questions) |->
                        Retrieve(chain, recs, questions[i], failSource = i)]
        failed ==
            \/ fb
            \/ \E i \in 1..Len(questions) : answers[i].exc
            \/ return_sources /\ \E i \in 1..Len(questions) : docs[i].exc
    IN IF failed
       THEN Ret([i \in 1..Len(questions) |->
                    [success |-> FALSE, question |-> questions[i],
                     error |-> "batch failure"]])
       ELSE Ret([i \in 1..Len(questions) |->
                    [success |-> TRUE, question |-> questions[i],
                     answer |-> answers[i].val]
                    @@ (IF return_sources
                        THEN [sources |-> FormatSources(docs[i].val),
                              num_sources |-> Len(docs[i].val)]
                        ELSE <<>>)])

----------------------------------------------------------------------------
(* TextProcessor: the chunker.  A text is a sequence of characters; a piece   *)
(* of it is kept as the span [from, to] of the document it covers, so that a  *)
(* chunk is both its content and its place in the document.                   *)

\* the characters of the documents of the model
Alphabet == {"a", ",", " "}

\* what str.strip() removes
Whitespace == {" ", "\n"}

\* the separators TextProcessor sets when it is given none, coarse to fine,
\* the empty string last
DefaultSeparators ==
    << <<"\n", "\n">>, <<"\n">>, <<".", " ">>, <<"!", " ">>, <<"?", " ">>,
       <<";", " ">>, <<",", " ">>, <<" ">>, <<>> >>

PieceLen(p) == p.to - p.from + 1

\* the separator, taken literally, stands at position p of text and ends by b
MatchesAt(text, p, b, separator) ==
    /\ p + Len(separator) - 1 <= b
    /\ \A j \in 1..Len(separator) : text[p + j - 1] = separator[j]

\* where re.split finds the separator in text[p..b]: left to right, the
\* matches not overlapping
RECURSIVE SeparatorStarts(_, _, _, _)
SeparatorStarts(text, p, b, separator) ==
    IF p + Len(separator) - 1 > b THEN <<>>
    ELSE IF MatchesAt(text, p, b, separator)
    THEN <<p>> \o SeparatorStarts(text, p + Len(separator), b, separator)
    ELSE SeparatorStarts(text, p + 1, b, separator)

\* _split_text_with_regex with keep_separator=True: every separator stays at the
\* start of the piece that follows it, the empty separator splits into
\* characters, and empty pieces are dropped
SplitTextWithRegex(text, a, b, separator) ==
    IF separator = <<>>
    THEN [i \in 1..(b - a + 1) |-> [from |-> a + i - 1, to |-> a + i - 1]]
    ELSE LET cuts == <<a>> \o SeparatorStarts(text, a, b, separator)
             pieces == [i \in 1..Len(cuts) |->
                           [from |-> cuts[i],
                            to |-> IF i < Len(cuts) THEN cuts[i + 1] - 1 ELSE b]]
         IN SelectSeq(pieces, LAMBDA p : p.to >= p.from)

\* the first separator of the list that is the empty one or occurs in the text
RECURSIVE FirstUsable(_, _, _, _, _)
FirstUsable(text, a, b, separators, i) ==
    IF i > Len(separators) THEN 0
    ELSE IF separators[i] = <<>> \/ SeparatorStarts(text, a, b, separators[i]) # <<>>
    THEN i
    ELSE FirstUsable(text, a, b, separators, i + 1)

\* the head of _split_text: the separator to split on and those left for the
\* pieces that are still too long
ChooseSeparator(text, a, b, separators) ==
    LET i == FirstUsable(text, a, b, separators, 1)
    IN IF i = 0
       THEN [separator |-> separators[Len(separators)], new_separators |-> <<>>]
       ELSE IF separators[i] = <<>>
       THEN [separator |-> <<>>, new_separators |-> <<>>]
       ELSE [separator |-> separators[i],
             new_separators |-> SubSeq(separators, i + 1, Len(separators))]

RECURSIVE LStrip(_, _, _)
LStrip(text, a, b) ==
    IF a <= b /\ text[a] \in Whitespace THEN LStrip(text, a + 1, b) ELSE a

RECURSIVE RStrip(_, _, _)
RStrip(text, a, b) ==
    IF a <= b /\ text[b] \in Whitespace THEN RStrip(text, a, b - 1) ELSE b

\* _join_docs: the pieces joined (they are consecutive and the separator between
\* them is empty), stripped; nothing if that leaves the empty string
JoinDocs(text, current_doc) ==
    IF current_doc = <<>> THEN <<>>
    ELSE LET a == LStrip(text, current_doc[1].from, current_doc[Len(current_doc)].to)
             b == RStrip(text, a, current_doc[Len(current_doc)].to)
         IN IF a > b THEN <<>> ELSE <<[from |-> a, to |-> b]>>

\* the while loop of _merge_splits after a chunk was emitted: pieces are dropped
\* from the front of current_doc until what is kept is no longer than
\* chunk_overlap and the next piece fits
RECURSIVE DropHead(_, _, _, _, _)

\* as DropHead, but pieces are dropped only until the next piece fits
DropHeadFitOnly(current_doc, total, len, chunk_size, chunk_overlap) ==
    IF total + len > chunk_size /\ total > 0
    THEN DropHead(Tail(current_doc), total - PieceLen(Head(current_doc)), len,
                  chunk_size, chunk_overlap)
    ELSE [current_doc |-> current_doc, total |-> total]

DropHead(current_doc, total, len, chunk_size, chunk_overlap) ==
    IF total > chunk_overlap \/ (total + len > chunk_size /\ total > 0)
    THEN DropHead(Tail(current_doc), total - PieceLen(Head(current_doc)), len,
                  chunk_size, chunk_overlap)
    ELSE [current_doc |-> current_doc, total |-> total]

\* the for loop of _merge_splits from piece i on; the separator the pieces are
\* joined with is empty because the separators were kept in the pieces
RECURSIVE MergeLoop(_, _, _, _, _, _, _, _)

\* as MergeLoop, but a chunk is emitted only once it is longer than chunk_size
MergeLoopLate(text, splits, i, current_doc, total, docs, chunk_size, chunk_overlap) ==
    IF i > Len(splits) THEN docs \o JoinDocs(text, current_doc)
    ELSE LET len == PieceLen(splits[i])
             emit == total > chunk_size /\ current_doc # <<>>
             kept == IF emit
                     THEN DropHead(current_doc, total, len, chunk_size, chunk_overlap)
                     ELSE [current_doc |-> current_doc, total |-> total]
         IN MergeLoop(text, splits, i + 1, Append(kept.current_doc, splits[i]),
                      kept.total + len,
                      IF emit THEN docs \o JoinDocs(text, current_doc) ELSE docs,
                      chunk_size, chunk_overlap)

MergeLoop(text, splits, i, current_doc, total, docs, chunk_size, chunk_overlap) ==
    IF i > Len(splits) THEN docs \o JoinDocs(text, current_doc)
    ELSE LET len == PieceLen(splits[i])
             emit == total + len > chunk_size /\ current_doc # <<>>
             kept == IF emit
                     THEN DropHead(current_doc, total, len, chunk_size, chunk_overlap)
                     ELSE [current_doc |-> current_doc, total |-> total]
         IN MergeLoop(text, splits, i + 1, Append(kept.current_doc, splits[i]),
                      kept.total + len,
                      IF emit THEN docs \o JoinDocs(text, current_doc) ELSE docs,
                      chunk_size, chunk_overlap)

\* _merge_splits
MergeSplits(text, splits, chunk_size, chunk_overlap) ==
    MergeLoop(text, splits, 1, <<>>, 0, <<>>, chunk_size, chunk_overlap)

\* _split_text on text[a..b]: split on the chosen separator, merge the pieces
\* shorter than chunk_size, and split each other piece with the separators
\* left, or emit it as it is when none is left
RECURSIVE SplitText(_, _, _, _, _, _)
RECURSIVE SplitLoop(_, _, _, _, _, _, _, _)

SplitLoop(text, splits, i, good, final, new_separators, chunk_size, chunk_overlap) ==
    LET merged == IF good # <<>>
                  THEN MergeSplits(text, good, chunk_size, chunk_overlap)
                  ELSE <<>>
    IN IF i > Len(splits) THEN final \o merged
       ELSE IF PieceLen(splits[i]) < chunk_size
       THEN SplitLoop(text, splits, i + 1, Append(good, splits[i]), final,
                      new_separators, chunk_size, chunk_overlap)
       ELSE LET other == IF new_separators = <<>> THEN <<splits[i]>>
                         ELSE SplitText(text, splits[i].from, splits[i].to,
                                        new_separators, chunk_size, chunk_overlap)
            IN SplitLoop(text, splits, i + 1, <<>>, final \o merged \o other,
                         new_separators, chunk_size, chunk_overlap)

SplitText(text, a, b, separators, chunk_size, chunk_overlap) ==
    LET chosen == ChooseSeparator(text, a, b, separators)
    IN SplitLoop(text, SplitTextWithRegex(text, a, b, chosen.separator), 1, <<>>,
                 <<>>, chosen.new_separators, chunk_size, chunk_overlap)

\* splitter.split_documents: the chunks of each document in turn, each with the
\* document it comes from
RECURSIVE SplitDocuments(_, _, _, _, _)
SplitDocuments(documents, n, separators, chunk_size, chunk_overlap) ==
    IF n > Len(documents) THEN <<>>
    ELSE LET spans == SplitText(documents[n], 1, Len(documents[n]), separators,
                                chunk_size, chunk_overlap)
         IN [i \in 1..Len(spans) |->
                [doc |-> n, from |-> spans[i].from, to |-> spans[i].to,
                 page_content |-> SubSeq(documents[n], spans[i].from, spans[i].to)]]
            \o SplitDocuments(documents, n + 1, separators, chunk_size, chunk_overlap)

\* as EnhanceChunkMetadata, but the numbering starts again with each document
EnhanceChunkMetadataPerDocument(chunks) ==
    [i \in 1..Len(chunks) |->
        chunks[i] @@ [chunk_id |-> Cardinality({j \in 1..(i - 1) :
                                                    chunks[j].doc = chunks[i].doc}),
                      chunk_size |-> Len(chunks[i].page_content)]]

\* _enhance_chunk_metadata: chunk_id in emission order from 0, chunk_size
EnhanceChunkMetadata(chunks) ==
    [i \in 1..Len(chunks) |->
        chunks[i] @@ [chunk_id |-> i - 1, chunk_size |-> Len(chunks[i].page_content)]]

\* sum(chunk_sizes), min(chunk_sizes), max(chunk_sizes)
RECURSIVE SumSizes(_)
SumSizes(chunks) ==
    IF chunks = <<>> THEN 0 ELSE Len(Head(chunks).page_content) + SumSizes(Tail(chunks))

MinSize(chunks) ==
    CHOOSE m \in {Len(chunks[i].page_content) : i \in 1..Len(chunks)} :
        \A i \in 1..Len(chunks) : m <= Len(chunks[i].page_content)

MaxSize(chunks) ==
    CHOOSE m \in {Len(chunks[i].page_content) : i \in 1..Len(chunks)} :
        \A i \in 1..Len(chunks) : m >= Len(chunks[i].page_content)

\* as CalculateStatistics, without the branch for no chunks: the average
\* divides by len(chunk_sizes) = 0
CalculateStatisticsUnguarded(chunks) ==
    IF chunks = <<>> THEN Raise
    ELSE Ret([total_chunks |-> Len(chunks),
              avg_chunk_size |-> <<SumSizes(chunks), Len(chunks)>>,
              min_chunk_size |-> MinSize(chunks),
              max_chunk_size |-> MaxSize(chunks),
              total_characters |-> SumSizes(chunks)])

\* _calculate_statistics; the average is kept as the quotient sum / count
CalculateStatistics(chunks) ==
    IF chunks = <<>>
    THEN Ret([total_chunks |-> 0, avg_chunk_size |-> <<0, 1>>, min_chunk_size |-> 0,
              max_chunk_size |-> 0, total_characters |-> 0])
    ELSE Ret([total_chunks |-> Len(chunks),
              avg_chunk_size |-> <<SumSizes(chunks), Len(chunks)>>,
              min_chunk_size |-> MinSize(chunks),
              max_chunk_size |-> MaxSize(chunks),
              total_characters |-> SumSizes(chunks)])

\* str.islower() of one character of the alphabet
IsLower(c) == c = "a"

\* the indices range(first - 1, len(chunks)) of a chunk list, counted from 1
IndicesFrom(chunks, first) ==
    [k \in 1..(Len(chunks) - first + 1) |-> k + first - 1]

TooSmall(chunks, chunk_size) ==
    SelectSeq(IndicesFrom(chunks, 1),
              LAMBDA i : Len(chunks[i].page_content) * 10 < chunk_size * 3)

TooLarge(chunks, chunk_size) ==
    SelectSeq(IndicesFrom(chunks, 1),
              LAMBDA i : Len(chunks[i].page_content) * 10 > chunk_size * 15)

\* as LowContextChunks, but the loop starts at the first chunk
LowContextChunksFromFirst(chunks) ==
    SelectSeq(IndicesFrom(chunks, 1),
              LAMBDA i : chunks[i].page_content # <<>> /\ IsLower(chunks[i].page_content[1]))

\* for i in range(1, len(chunks)): the second chunk onwards
LowContextChunks(chunks) ==
    SelectSeq(IndicesFrom(chunks, 2),
              LAMBDA i : chunks[i].page_content # <<>> /\ IsLower(chunks[i].page_content[1]))

VerySmall(n) == [text |-> "chunks are very small", count |-> n]
VeryLarge(n) == [text |-> "chunks are very large", count |-> n]
MidSentence(n) == [text |-> "chunks start mid-sentence", count |-> n]
LooksGood == [text |-> "Chunk quality looks good!", count |-> 0]

\* analyze_chunk_quality of a processor with the given chunk_size; the
\* thresholds 0.3, 1.5, 0.1 and 0.15 are compared in tenths and hundredths
AnalyzeChunkQuality(chunks, chunk_size) ==
    IF chunks = <<>> THEN Ret([error |-> "No chunk to analyze"])
    ELSE LET stats == CalculateStatistics(chunks).value
             too_small == Len(TooSmall(chunks, chunk_size))
             too_large == Len(TooLarge(chunks, chunk_size))
             low_context == Len(LowContextChunks(chunks))
             triggered ==
                 (IF too_small * 10 > Len(chunks) THEN <<VerySmall(too_small)>> ELSE <<>>)
                 \o (IF too_large * 10 > Len(chunks) THEN <<VeryLarge(too_large)>> ELSE <<>>)
                 \o (IF low_context * 100 > Len(chunks) * 15
                     THEN <<MidSentence(low_context)>> ELSE <<>>)
         IN Ret([total_chunks |-> stats.total_chunks,
                 average_size |-> stats.avg_chunk_size[1] \div stats.avg_chunk_size[2],
                 size_range |-> <<stats.min_chunk_size, stats.max_chunk_size>>,
                 quality_metrics |-> [chunks_too_small |-> too_small,
                                      chunks_too_large |-> too_large,
                                      chunks_with_low_context |-> low_context],
                 recommendations |-> IF triggered = <<>> THEN <<LooksGood>>
                                     ELSE triggered])

\* TextProcessor(chunk_size, chunk_overlap).process_documents(documents); the
\* splitter's constructor raises ValueError on an overlap larger than the size
ProcessDocuments(documents, chunk_size, chunk_overlap) ==
    IF chunk_overlap > chunk_size THEN Raise
    ELSE IF documents = <<>> THEN Ret(<<>>)
    ELSE LET chunks == EnhanceChunkMetadata(
                          SplitDocuments(documents, 1, DefaultSeparators, chunk_size,
                                         chunk_overlap))
             stats == CalculateStatistics(chunks)
         IN IF stats.raised THEN Raise ELSE Ret(chunks)

----------------------------------------------------------------------------
(* The state machine: one caller, one call at a time.  The caller makes a    *)
(* call, holds its result, and lets go of it before the next call, or runs   *)
(* the same add again right after it failed on a batch.                      *)

Idle == [op |-> "idle", raised |-> FALSE]

NoRerun == [none |-> TRUE]

\* the ways _load_or_create_vector_store can meet failures: <<f1, fc, f2>> with
\* f2 read only when the first Chroma(...) or the count raised
\* init_session_state: the settings of a new session, temperature in tenths
DefaultSettings == [k_documents |-> 4, temperature |-> 1]

\* st.session_state of a new session: no manager, nothing indexed; store
\* numbers the Chroma objects the session's managers have held
NoSession == [loaded |-> FALSE, documents_indexed |-> FALSE, settings |-> DefaultSettings, store |-> 0]

LoadFaults ==
    {<<FALSE, FALSE, FALSE>>, <<TRUE, FALSE, FALSE>>, <<FALSE, TRUE, FALSE>>,
     <<TRUE, FALSE, TRUE>>, <<FALSE, TRUE, TRUE>>}

\* the batches a failure can hit: total_batches of them when batch_size > 0
FailPoints(documents, batch_size) ==
    IF batch_size > 0
    THEN 0..((Len(documents) + batch_size - 1) \div batch_size)
    ELSE {0}

Init ==
    /\ records = <<>>
    /\ exists = TRUE
    /\ vector_store = "live"
    /\ rag_chain = NoChain
    /\ chat_history = <<>>
    /\ session = NoSession
    /\ last = Idle

\* VectorStoreManager(...): fe says whether loading the embedding model raises.
\* A constructor that raises leaves the caller with the manager it had.
OpenManager ==
    /\ last = Idle
    /\ \E fe \in BOOLEAN, f \in LoadFaults :
        LET r == IF fe
                 THEN [raised |-> TRUE, vector_store |-> "none", opened |-> FALSE,
                       calls |-> 0, records |-> records]
                 ELSE LoadOrCreateVectorStore("none", records, f[1], f[2], f[3])
        IN /\ vector_store' = IF r.raised THEN vector_store ELSE r.vector_store
           /\ exists' = (exists \/ r.opened)
           /\ records' = r.records
           /\ last' = [op |-> "open", raised |-> r.raised, pre |-> records,
                       calls |-> r.calls, first_failed |-> ~fe /\ f[1]]
    /\ UNCHANGED <<rag_chain, chat_history, session>>

\* the caller runs the call it holds the failed result of once more
Rerun(documents, batch_size) ==
    /\ last.op = "add"
    /\ last.failed > 0
    /\ last.documents = documents
    /\ last.batch_size = batch_size

Add ==
    \E documents \in DocumentLists :
        /\ Len(records) + Len(documents) <= MaxIndex
        /\ \E batch_size \in BatchSizes, c1, c2 \in BOOLEAN :
            /\ last = Idle \/ Rerun(documents, batch_size)
            /\ \E failBatch \in FailPoints(documents, batch_size) :
                LET r == AddDocuments(vector_store, records, documents, batch_size,
                                      c1, failBatch, c2)
                IN /\ records' = r.records
                   /\ last' = [op |-> "add", raised |-> r.raised, value |-> r.value,
                               documents |-> documents, batch_size |-> batch_size,
                               pre |-> records, calls |-> r.calls, sent |-> r.sent,
                               failed |-> r.failed, failBatch |-> failBatch,
                               rerun |-> IF Rerun(documents, batch_size)
                                         THEN [pre |-> last.pre,
                                               committed |->
                                                   Len(records) - Len(last.pre)]
                                         ELSE NoRerun]
    /\ UNCHANGED <<exists, vector_store, rag_chain, chat_history, session>>

Search ==
    /\ last = Idle
    /\ \E query \in Queries, k \in 1..MaxK, filter_dict \in Filters, fail \in BOOLEAN :
        LET r == SimilaritySearch(vector_store, records, query, k, filter_dict, fail)
        IN last' = [op |-> "search", raised |-> r.raised, value |-> r.value,
                    query |-> query, k |-> k, filter_dict |-> filter_dict,
                    fail |-> fail, pre |-> records]
    /\ UNCHANGED <<records, exists, vector_store, rag_chain, chat_history, session>>

SearchWithScore ==
    /\ last = Idle
    /\ \E query \in Queries, k \in 1..MaxK, filter_dict \in Filters, fail \in BOOLEAN :
        LET r == SimilaritySearchWithScore(vector_store, records, query, k,
                                           filter_dict, fail)
        IN last' = [op |-> "search_with_score", raised |-> r.raised,
                    value |-> r.value, query |-> query, k |-> k,
                    filter_dict |-> filter_dict, fail |-> fail, pre |-> records]
    /\ UNCHANGED <<records, exists, vector_store, rag_chain, chat_history, session>>

Count ==
    /\ last = Idle
    /\ \E fail \in BOOLEAN :
        LET r == GetDocumentCount(vector_store, records, fail)
        IN last' = [op |-> "count", raised |-> r.raised, value |-> r.value,
                    fail |-> fail, pre |-> records]
    /\ UNCHANGED <<records, exists, vector_store, rag_chain, chat_history, session>>

Clear ==
    /\ last = Idle
    /\ \E fd \in BOOLEAN, f \in LoadFaults :
        LET r == ClearVectorStore(vector_store, records, fd, f[1], f[2], f[3])
        IN /\ records' = r.records
           /\ exists' = r.exists
           /\ vector_store' = r.vector_store
           /\ rag_chain' = IF r.deleted /\ rag_chain # NoChain
                           THEN [rag_chain EXCEPT !.retriever = "stale"]
                           ELSE rag_chain
           /\ last' = [op |-> "clear", raised |-> r.raised, value |-> r.value,
                       deleted |-> r.deleted, fd |-> fd, pre |-> records]
    /\ UNCHANGED <<chat_history, session>>

Statistics ==
    /\ last = Idle
    /\ \E fc, fs \in BOOLEAN :
        LET r == GetStatistics(vector_store, records, fc, fs)
        IN last' = [op |-> "statistics", raised |-> r.raised, value |-> r.value,
                    fc |-> fc, fs |-> fs, pre |-> records]
    /\ UNCHANGED <<records, exists, vector_store, rag_chain, chat_history, session>>

BuildChain ==
    /\ last = Idle
    /\ \E k_documents \in 1..MaxK, fail \in BOOLEAN :
        LET r == NewRAGChain(vector_store, k_documents, fail)
        IN /\ rag_chain' = IF r.raised THEN rag_chain ELSE r.value
           /\ last' = [op |-> "chain", raised |-> r.raised, pre |-> records]
    /\ UNCHANGED <<records, exists, vector_store, chat_history, session>>

Ask ==
    /\ last = Idle
    /\ rag_chain # NoChain
    /\ \E question \in Questions, return_sources \in BOOLEAN,
          fault \in {"none", "sources", "retrieval", "model"} :
        LET r == Query(rag_chain, records, question, return_sources,
                       fault = "sources", fault = "retrieval", fault = "model")
        IN last' = [op |-> "query", question |-> question,
                    return_sources |-> return_sources, fault |-> fault,
                    pre |-> records] @@ r
    /\ UNCHANGED <<records, exists, vector_store, rag_chain, chat_history, session>>

\* failAfter = -2: the retrieval raises; -1: nothing raises
Stream ==
    /\ last = Idle
    /\ rag_chain # NoChain
    /\ \E question \in Questions, failAfter \in (-2)..(MaxK + 1) :
        LET r == StreamQuery(rag_chain, records, question, failAfter = -2, failAfter)
        IN last' = [op |-> "stream_query", question |-> question,
                    failAfter |-> failAfter, pre |-> records] @@ r
    /\ UNCHANGED <<records, exists, vector_store, rag_chain, chat_history, session>>

\* failSource = -1: chain.batch raises; 0: nothing raises
Batch ==
    /\ last = Idle
    /\ rag_chain # NoChain
    /\ \E questions \in SeqsUpTo(BatchQuestions, MaxQuestions),
          return_sources \in BOOLEAN :
        \E failSource \in (-1)..Len(questions) :
            LET r == BatchQuery(rag_chain, records, questions, return_sources,
                                failSource = -1, failSource)
            IN last' = [op |-> "batch_query", questions |-> questions,
                        return_sources |-> return_sources,
                        failSource |-> failSource, raised |-> r.raised,
                        value |-> r.value, pre |-> records]
    /\ UNCHANGED <<records, exists, vector_store, rag_chain, chat_history, session>>

\* a call that has made its first backend call and not yet its next one
InFlightOps == {"query_retrieved", "process_streamed", "merging"}

\* the caller lets go of the result it holds
Return ==
    /\ last # Idle
    /\ last.op \notin InFlightOps
    /\ last' = Idle
    /\ UNCHANGED <<records, exists, vector_store, rag_chain, chat_history, session>>

Next ==
    \/ OpenManager
    \/ Add
    \/ Search
    \/ SearchWithScore
    \/ Count
    \/ Clear
    \/ Statistics
    \/ BuildChain
    \/ Ask
    \/ Stream
    \/ Batch
    \/ Return

Spec == Init /\ [][Next]_vars

----------------------------------------------------------------------------
(* The collection shared with another session.  The persist directory and    *)
(* the collection name are the same for every session of the application, so *)
(* a batch another session's add_documents commits lands between two backend *)
(* calls of this session's query.  query is taken here call by call.         *)

\* query up to and including the retrieval made for the sources
AskBegin ==
    /\ last = Idle
    /\ rag_chain # NoChain
    /\ \E question \in Questions, fr1 \in BOOLEAN :
        LET retrieved == Retrieve(rag_chain, records, question, fr1)
        IN last' =
            IF Blank(question) \/ retrieved.exc
            THEN [op |-> "query", question |-> question, return_sources |-> TRUE,
                  fault |-> IF fr1 THEN "sources" ELSE "none", pre |-> records]
                 @@ Query(rag_chain, records, question, TRUE, fr1, FALSE, FALSE)
            ELSE [op |-> "query_retrieved", raised |-> FALSE,
                  question |-> question, retrieved |-> retrieved.val,
                  pre |-> records]
    /\ UNCHANGED <<records, exists, vector_store, rag_chain, chat_history, session>>

\* another session's vector_store.add_documents(batch) commits a batch
OtherSessionAdd ==
    /\ last.op \in InFlightOps
    /\ \E d \in Chunks :
        /\ Len(records) + 1 <= MaxIndex
        /\ records' = BackendInsert("live", records, <<d>>, FALSE).val
    /\ exists
    /\ UNCHANGED <<exists, vector_store, rag_chain, chat_history, last, session>>

\* the rest of query: chain.invoke and the response built from both
AskFinish ==
    /\ last.op = "query_retrieved"
    /\ \E fault \in {"none", "retrieval", "model"} :
        LET answer == ChainInvoke(rag_chain, records, last.question,
                                  fault = "retrieval", fault = "model")
            head == [op |-> "query", question |-> last.question,
                     return_sources |-> TRUE, fault |-> fault, pre |-> last.pre,
                     retrievals |-> 1 + answer.retrievals,
                     generations |-> answer.generations]
        IN last' =
            IF answer.exc
            THEN head @@ Ret([success |-> FALSE, question |-> last.question,
                              error |-> "chain failure"])
            ELSE head @@ [context |-> answer.context]
                      @@ Ret([success |-> TRUE, question |-> last.question,
                              answer |-> answer.val,
                              sources |-> FormatSources(last.retrieved),
                              num_sources |-> Len(last.retrieved)])
    /\ UNCHANGED <<records, exists, vector_store, rag_chain, chat_history, session>>

NextShared ==
    \/ Add
    \/ BuildChain
    \/ AskBegin
    \/ OtherSessionAdd
    \/ AskFinish
    \/ Return

SpecShared == Init /\ [][NextShared]_vars

----------------------------------------------------------------------------
(* The question box of the application: process_question, in its streaming   *)
(* and its non-streaming path, and the chat history it keeps.  The streaming *)
(* path makes its own retrieval after the stream has ended, so it is taken   *)
(* in two steps, with the other session's commits in between.                *)

\* add_documents(chunks) as process_uploaded_files calls it: batch_size is left
\* at its default of 100, so the chunks of the model go in one batch
DefaultBatchSize == 100

\* process_uploaded_files from the chunking on: index the chunks and, on
\* success, drop the RAGChain so that the next question builds a new one
IndexFiles ==
    /\ last = Idle
    /\ vector_store # "none"
    /\ \E documents \in DocumentLists \ {<<>>}, failBatch \in 0..1 :
        /\ Len(records) + Len(documents) <= MaxUpload
        /\ LET r == AddDocuments(vector_store, records, documents, DefaultBatchSize,
                                 FALSE, failBatch, FALSE)
           IN /\ records' = r.records
              /\ rag_chain' = IF r.value.success THEN NoChain ELSE rag_chain
              /\ last' = [op |-> "index", raised |-> r.raised, value |-> r.value,
                          pre |-> records]
    /\ UNCHANGED <<exists, vector_store, chat_history, session>>

\* load_rag_chain: a RAGChain is built when there is none and the index holds
\* something, with the k_documents of the settings
LoadChain ==
    /\ last = Idle
    /\ rag_chain = NoChain
    /\ vector_store # "none"
    /\ GetDocumentCount(vector_store, records, FALSE).value > 0
    /\ \E k_documents \in 1..MaxK, fail \in BOOLEAN :
        LET r == NewRAGChain(vector_store, k_documents, fail)
        IN /\ rag_chain' = IF r.raised THEN rag_chain ELSE r.value
           /\ last' = [op |-> "load_chain", raised |-> r.raised, pre |-> records]
    /\ UNCHANGED <<records, exists, vector_store, chat_history, session>>

\* st.chat_input hands over a question only if it is non-empty
AppQuestions == {"about a", "about b"}

\* the entry process_question appends to chat_history
ChatEntry(question, answer, sources) ==
    [question |-> question, answer |-> answer, sources |-> sources]

\* the streaming path up to the end of the stream: full_response is built up
\* from the fragments and shown
ProcessQuestionStream ==
    /\ last = Idle
    /\ rag_chain # NoChain
    /\ Len(chat_history) < MaxHistory
    /\ \E question \in AppQuestions, failAfter \in (-2)..(MaxK + 1) :
        LET r == StreamQuery(rag_chain, records, question, failAfter = -2, failAfter)
        IN last' = [op |-> "process_streamed", raised |-> FALSE,
                    question |-> question, fragments |-> r.value,
                    full_response |-> Join(r.value),
                    context |-> IF "context" \in DOMAIN r THEN r.context ELSE <<>>,
                    pre |-> records]
    /\ UNCHANGED <<records, exists, vector_store, rag_chain, chat_history, session>>

\* the rest of the streaming path: the retrieval for the sources, their display,
\* and the append to chat_history; fr says whether the retrieval raises, which
\* ends process_question with the exception
ProcessQuestionCite ==
    /\ last.op = "process_streamed"
    /\ \E fr \in BOOLEAN :
        LET retrieved == Retrieve(rag_chain, records, last.question, fr)
            sources == IF retrieved.exc THEN <<>> ELSE FormatSources(retrieved.val)
        IN /\ chat_history' =
                IF retrieved.exc THEN chat_history
                ELSE Append(chat_history,
                            ChatEntry(last.question, last.full_response, sources))
           /\ last' = [op |-> "process_question", streaming |-> TRUE,
                       raised |-> retrieved.exc, question |-> last.question,
                       fragments |-> last.fragments, answer |-> last.full_response,
                       success |-> TRUE, error_shown |-> FALSE,
                       sources |-> sources, context |-> last.context,
                       history |-> chat_history, pre |-> last.pre]
    /\ UNCHANGED <<records, exists, vector_store, rag_chain, session>>

\* the non-streaming path: query with sources, then the answer and an append to
\* chat_history, or st.error
ProcessQuestionQuery ==
    /\ last = Idle
    /\ rag_chain # NoChain
    /\ Len(chat_history) < MaxHistory
    /\ \E question \in AppQuestions, fault \in {"none", "sources", "retrieval", "model"} :
        LET r == Query(rag_chain, records, question, TRUE,
                       fault = "sources", fault = "retrieval", fault = "model")
            ok == r.value.success
        IN /\ chat_history' =
                IF ok
                THEN Append(chat_history,
                            ChatEntry(question, r.value.answer, r.value.sources))
                ELSE chat_history
           /\ last' = [op |-> "process_question", streaming |-> FALSE,
                       raised |-> FALSE, question |-> question,
                       fragments |-> <<>>,
                       answer |-> IF ok THEN r.value.answer ELSE "",
                       success |-> ok, error_shown |-> ~ok,
                       sources |-> IF ok THEN r.value.sources ELSE <<>>,
                       context |-> IF ok THEN r.context ELSE <<>>,
                       history |-> chat_history, pre |-> records]
    /\ UNCHANGED <<records, exists, vector_store, rag_chain, session>>

\* the "Clear Chat History" button
ClearChat ==
    /\ last = Idle
    /\ chat_history # <<>>
    /\ chat_history' = <<>>
    /\ UNCHANGED <<records, exists, vector_store, rag_chain, last, session>>

NextApp ==
    \/ IndexFiles
    \/ LoadChain
    \/ ProcessQuestionStream
    \/ OtherSessionAdd
    \/ ProcessQuestionCite
    \/ ProcessQuestionQuery
    \/ ClearChat
    \/ Return

SpecApp == Init /\ [][NextApp]_vars

----------------------------------------------------------------------------
(* The chunker on its own: one call of chunk_documents after the other.      *)

\* the document texts handed to the chunker: one document, or a batch of two
Texts(n) == SeqsUpTo(Alphabet, n)
ChunkerInputs ==
    {<<>>} \cup {<<t>> : t \in Texts(MaxText)}
           \cup {<<t, u>> : t \in Texts(MaxPairText), u \in Texts(MaxPairText)}

Process ==
    /\ last = Idle
    /\ \E documents \in ChunkerInputs, chunk_size \in 1..MaxChunkSize :
        \E chunk_overlap \in 0..(chunk_size + 1) :
            LET r == ProcessDocuments(documents, chunk_size, chunk_overlap)
            IN last' = [op |-> "process", raised |-> r.raised, value |-> r.value,
                        documents |-> documents, chunk_size |-> chunk_size,
                        chunk_overlap |-> chunk_overlap]
    /\ UNCHANGED <<records, exists, vector_store, rag_chain, chat_history, session>>

\* the chunk_size values of the processor that analyses a chunk list
AnalyzeSizes == 1..(3 * MaxChunkSize)

\* processor.analyze_chunk_quality(chunks) on the chunks of a process call
Analyze ==
    /\ last = Idle
    /\ \E documents \in ChunkerInputs, made_size \in 1..MaxChunkSize :
        \E made_overlap \in 0..made_size, chunk_size \in AnalyzeSizes :
            LET chunks == ProcessDocuments(documents, made_size, made_overlap).value
                r == AnalyzeChunkQuality(chunks, chunk_size)
            IN last' = [op |-> "analyze", raised |-> r.raised, value |-> r.value,
                        chunks |-> chunks, chunk_size |-> chunk_size]
    /\ UNCHANGED <<records, exists, vector_store, rag_chain, chat_history, session>>

NextChunker ==
    \/ Process
    \/ Analyze
    \/ Return

SpecChunker == Init /\ [][NextChunker]_vars

----------------------------------------------------------------------------
(* The loops of the chunker step by step.  The text is split into characters, *)
(* the last fallback of the separator list, and _merge_splits runs over them  *)
(* one iteration of its for loop or of its while loop at a time.              *)

\* as PopHead, but current_doc and total stay as they are
PopHeadStuck(current_doc, total) ==
    [current_doc |-> current_doc, total |-> total]

\* the body of the while loop: total -= len(current_doc[0]); current_doc =
\* current_doc[1:]
PopHead(current_doc, total) ==
    [current_doc |-> Tail(current_doc), total |-> total - PieceLen(Head(current_doc))]

\* TextProcessor(chunk_size, chunk_overlap) and the start of _merge_splits
MergeStart ==
    /\ last = Idle
    /\ \E text \in Texts(MaxMergeText), chunk_size \in 2..MaxChunkSize :
        \E chunk_overlap \in 0..(chunk_size + 1) :
            last' = [op |-> IF chunk_overlap > chunk_size THEN "merge" ELSE "merging",
                     raised |-> chunk_overlap > chunk_size, pc |-> "for",
                     text |-> text,
                     splits |-> SplitTextWithRegex(text, 1, Len(text), <<>>),
                     i |-> 1, current_doc |-> <<>>, total |-> 0, docs |-> <<>>,
                     pops |-> 0, chunk_size |-> chunk_size,
                     chunk_overlap |-> chunk_overlap]
    /\ UNCHANGED <<records, exists, vector_store, rag_chain, chat_history, session>>

\* one round of "for d in splits" up to the while loop, or the end of the loop
MergeFor ==
    /\ last.op = "merging"
    /\ last.pc = "for"
    /\ last' =
        IF last.i > Len(last.splits)
        THEN [last EXCEPT !.op = "merge",
                          !.docs = @ \o JoinDocs(last.text, last.current_doc)]
        ELSE IF last.total + PieceLen(last.splits[last.i]) > last.chunk_size
                /\ last.current_doc # <<>>
        THEN [last EXCEPT !.pc = "while",
                          !.docs = @ \o JoinDocs(last.text, last.current_doc)]
        ELSE [last EXCEPT !.i = @ + 1,
                          !.current_doc = Append(@, last.splits[last.i]),
                          !.total = @ + PieceLen(last.splits[last.i])]
    /\ UNCHANGED <<records, exists, vector_store, rag_chain, chat_history, session>>

\* one test of the while condition: a piece is dropped, or the loop is left and
\* the piece in hand is appended
MergeWhile ==
    /\ last.op = "merging"
    /\ last.pc = "while"
    /\ LET len == PieceLen(last.splits[last.i])
           popped == PopHead(last.current_doc, last.total)
       IN last' =
            IF \/ last.total > last.chunk_overlap
               \/ (last.total + len > last.chunk_size /\ last.total > 0)
            THEN [last EXCEPT !.current_doc = popped.current_doc,
                              !.total = popped.total,
                              !.pops = @ + 1]
            ELSE [last EXCEPT !.pc = "for", !.i = @ + 1,
                              !.current_doc = Append(@, last.splits[last.i]),
                              !.total = @ + len]
    /\ UNCHANGED <<records, exists, vector_store, rag_chain, chat_history, session>>

NextMerge ==
    \/ MergeStart
    \/ MergeFor
    \/ MergeWhile
    \/ Return

\* a call that has started runs on: nothing but the code decides its next step
SpecMerge == Init /\ [][NextMerge]_vars /\ WF_vars(NextMerge)

----------------------------------------------------------------------------
(* The session of the application: one run of main() per event of the user.  *)
(* A run loads the manager if the session has none, renders the sidebar and  *)
(* the tabs; a handler that ends in st.rerun() is followed by a run without  *)
(* an event.  An exception that leaves main() ends the run where it is.      *)

\* the values the two sliders are moved to
KSlider == {1, 4}
TemperatureSlider == {0, 1}

\* the faults of one run: the embedding model and the Chroma calls of a new
\* manager, the count of load_vector_store, the count of load_rag_chain and
\* the construction of the RAGChain
RunFaults == [fe : BOOLEAN, f : LoadFaults, fc1 : BOOLEAN, fc2 : BOOLEAN, fchain : BOOLEAN]

\* the session and the index as a run finds them
World ==
    [session |-> session, vector_store |-> vector_store, records |-> records,
     exists |-> exists, rag_chain |-> rag_chain, aborted |-> FALSE]

\* load_vector_store
LoadVectorStore(w, fe, f, fc) ==
    IF w.aborted \/ w.session.loaded THEN w
    ELSE LET r == IF fe
                  THEN [raised |-> TRUE, vector_store |-> "none", opened |-> FALSE,
                        calls |-> 0, records |-> w.records]
                  ELSE LoadOrCreateVectorStore("none", w.records, f[1], f[2], f[3])
         IN IF r.raised
            THEN [w EXCEPT !.aborted = TRUE, !.exists = @ \/ r.opened]
            ELSE [w EXCEPT
                    !.vector_store = r.vector_store,
                    !.records = r.records,
                    !.exists = @ \/ r.opened,
                    !.session =
                        [@ EXCEPT !.loaded = TRUE,
                                  !.store = @ + 1,
                                  !.documents_indexed =
                                      GetDocumentCount(r.vector_store, r.records, fc).value > 0]]

\* load_rag_chain: the chain takes k_documents and temperature from the
\* settings and its retriever from the Chroma object the manager holds
LoadRagChain(w, fc, fchain) ==
    IF w.aborted \/ w.rag_chain # NoChain \/ ~w.session.loaded THEN w
    ELSE IF GetDocumentCount(w.vector_store, w.records, fc).value > 0
         THEN LET r == NewRAGChain(w.vector_store, w.session.settings.k_documents, fchain)
              IN IF r.raised THEN [w EXCEPT !.aborted = TRUE]
                 ELSE [w EXCEPT !.rag_chain =
                            r.value @@ [temperature |-> w.session.settings.temperature,
                                        store |-> w.session.store]]
         ELSE w

\* qa_interface_tab: asked says whether the chat input holds a question;
\* processed says whether process_question was called
QaInterfaceTab(w, fc, fchain, asked) ==
    IF w.aborted \/ ~w.session.documents_indexed THEN w @@ [processed |-> FALSE]
    ELSE LET v == LoadRagChain(w, fc, fchain)
         IN v @@ [processed |-> asked /\ ~v.aborted]

\* main() without a sidebar or upload event
Main(w, faults, asked) ==
    QaInterfaceTab(LoadVectorStore(w, faults.fe, faults.f, faults.fc1),
                   faults.fc2, faults.fchain, asked)

\* as SidebarSettings, but the RAGChain is kept
SidebarSettingsKeepChain(w, k_docs, temperature) ==
    [w EXCEPT !.session.settings = [k_documents |-> k_docs, temperature |-> temperature]]

\* sidebar, a slider moved: the settings are stored and the RAGChain dropped
SidebarSettings(w, k_docs, temperature) ==
    [w EXCEPT !.session.settings = [k_documents |-> k_docs, temperature |-> temperature],
              !.rag_chain = NoChain]

\* sidebar, "Clear All Documents": the result of clear_vector_store is not
\* looked at
SidebarClear(w, fd, f) ==
    LET r == ClearVectorStore(w.vector_store, w.records, fd, f[1], f[2], f[3])
    IN [w EXCEPT !.records = r.records,
                 !.exists = r.exists,
                 !.vector_store = r.vector_store,
                 !.rag_chain = NoChain,
                 !.session = [@ EXCEPT !.documents_indexed = FALSE,
                                       !.store = IF r.deleted /\ r.vector_store = "live"
                                                 THEN @ + 1 ELSE @]]

\* sidebar, "Refresh System": the manager and the RAGChain are dropped
SidebarRefresh(w) ==
    [w EXCEPT !.vector_store = "none", !.rag_chain = NoChain, !.session.loaded = FALSE]

\* process_uploaded_files from the indexing on; rerun says whether it ended
\* in st.rerun()
ProcessUploadedFiles(w, documents, failBatch, c2) ==
    LET r == AddDocuments(w.vector_store, w.records, documents, DefaultBatchSize,
                          FALSE, failBatch, c2)
    IN IF r.value.success
       THEN [w EXCEPT !.records = r.records, !.rag_chain = NoChain,
                      !.session.documents_indexed = TRUE] @@ [rerun |-> TRUE]
       ELSE [w EXCEPT !.records = r.records] @@ [rerun |-> FALSE]

\* the state a run leaves behind
Leave(w) ==
    /\ records' = w.records
    /\ exists' = w.exists
    /\ vector_store' = w.vector_store
    /\ rag_chain' = w.rag_chain
    /\ session' = w.session

\* the page is opened or reloaded
SessionVisit ==
    /\ last = Idle
    /\ session.store < MaxStores
    /\ \E faults \in RunFaults :
        LET w == Main(World, faults, FALSE)
        IN /\ Leave(w)
           /\ last' = [op |-> "visit", raised |-> w.aborted]
    /\ UNCHANGED chat_history

ChangeSettings ==
    /\ last = Idle
    /\ session.loaded
    /\ \E k_docs \in KSlider, temperature \in TemperatureSlider, faults \in RunFaults :
        /\ k_docs # session.settings.k_documents \/ temperature # session.settings.temperature
        /\ LET w == Main(SidebarSettings(World, k_docs, temperature), faults, FALSE)
           IN /\ Leave(w)
              /\ last' = [op |-> "settings", raised |-> w.aborted]
    /\ UNCHANGED chat_history

ClearAllDocuments ==
    /\ last = Idle
    /\ session.loaded
    /\ session.store < MaxStores
    /\ \E fd \in BOOLEAN, f \in LoadFaults, faults \in RunFaults :
        LET w == Main(SidebarClear(World, fd, f), faults, FALSE)
        IN /\ Leave(w)
           /\ last' = [op |-> "clear_all", raised |-> w.aborted, pre |-> records]
    /\ chat_history' = <<>>

RefreshSystem ==
    /\ last = Idle
    /\ session.loaded
    /\ session.store < MaxStores
    /\ \E faults \in RunFaults :
        LET w == Main(SidebarRefresh(World), faults, FALSE)
        IN /\ Leave(w)
           /\ last' = [op |-> "refresh", raised |-> w.aborted]
    /\ UNCHANGED chat_history

ProcessAndIndex ==
    /\ last = Idle
    /\ session.loaded
    /\ \E documents \in DocumentLists, failBatch \in 0..1, c2 \in BOOLEAN, faults \in RunFaults :
        /\ Len(records) + Len(documents) <= MaxUpload
        /\ LET u == ProcessUploadedFiles(World, documents, failBatch, c2)
               w == IF u.rerun THEN Main(u, faults, FALSE) ELSE u
           IN /\ Leave(w)
              /\ last' = [op |-> "index", raised |-> w.aborted, success |-> u.rerun,
                          pre |-> records]
    /\ UNCHANGED chat_history

\* a question is entered: the run reaches qa_interface_tab, which hands the
\* question to process_question with the RAGChain the session then holds
SubmitQuestion ==
    /\ last = Idle
    /\ session.loaded
    /\ \E question \in AppQuestions, faults \in RunFaults :
        LET w == Main(World, faults, TRUE)
        IN /\ Leave(w)
           /\ last' = [op |-> "question", raised |-> w.aborted, question |-> question,
                       indexed |-> session.documents_indexed,
                       processed |-> w.processed, chain |-> w.rag_chain]
    /\ UNCHANGED chat_history

NextSession ==
    \/ SessionVisit
    \/ ChangeSettings
    \/ ClearAllDocuments
    \/ RefreshSystem
    \/ ProcessAndIndex
    \/ SubmitQuestion
    \/ Return

SpecSession == Init /\ [][NextSession]_vars

----------------------------------------------------------------------------
(* DocumentLoader: validation, format dispatch and directory loading *)

SUPPORTED_FORMATS == {".pdf", ".txt", ".docx"}
MAX_FILE_SIZE_MB == 50
max_file_size == MAX_FILE_SIZE_MB * 1024 * 1024

Suffixes == {".pdf", ".PDF", ".txt", ".docx", ".md"}

\* file_path.suffix.lower()
Lower(suffix) == IF suffix = ".PDF" THEN ".pdf" ELSE suffix

\* what a path can denote: nothing, a directory entry that is no regular file,
\* or a regular file of some size that its format parser reads or fails on
Missing == {[exists |-> FALSE, is_file |-> FALSE, suffix |-> s, size |-> 0, parses |-> FALSE] : s \in Suffixes}
Present == [exists : {TRUE}, is_file : BOOLEAN, suffix : Suffixes, size : {0, max_file_size, max_file_size + 1}, parses : BOOLEAN]
Paths == Missing \cup Present

\* _validate_file: the first check that fails raises
ValidateFile(file) ==
    IF ~file.exists THEN "File not found"
    ELSE IF ~file.is_file THEN "Not a file"
    ELSE IF Lower(file.suffix) \notin SUPPORTED_FORMATS THEN "Unsupported format"
    ELSE IF file.size > max_file_size THEN "File too large"
    ELSE "valid"

\* the parser load_document dispatches to
ParserOf(suffix) ==
    CASE suffix = ".pdf" -> "PyPDFLoader"
      [] suffix = ".txt" -> "TextLoader"
      [] suffix = ".docx" -> "Docx2txtLoader"
      [] OTHER -> "none"

\* _enrich_metadata of the documents a parser returned
EnrichMetadata(name, file) ==
    <<[source_file |-> name, file_type |-> Lower(file.suffix), chunk_index |-> 0, total_chunks |-> 1]>>

\* load_document: validation, then the parser of the suffix; parsers lists the
\* parser calls made, and every failure is raised to the caller
LoadDocument(name, file) ==
    LET valid == ValidateFile(file)
        parser == ParserOf(Lower(file.suffix))
    IN IF valid # "valid" THEN [raised |-> TRUE, value |-> valid, parsers |-> <<>>]
       ELSE IF parser = "none"
            THEN [raised |-> TRUE, value |-> "Unsupported file format", parsers |-> <<>>]
       ELSE IF ~file.parses
            THEN [raised |-> TRUE, value |-> "parser failed", parsers |-> <<parser>>]
       ELSE [raised |-> FALSE, value |-> EnrichMetadata(name, file), parsers |-> <<parser>>]

\* the name of the n-th entry of a directory
FileName(n) == <<"file", n>>

\* as DirectoryLoop, but the first file that fails ends the loop
RECURSIVE DirectoryLoopAbort(_, _, _)
DirectoryLoopAbort(files, n, results) ==
    IF n > Len(files) THEN results
    ELSE IF Lower(files[n].suffix) \notin SUPPORTED_FORMATS
         THEN DirectoryLoopAbort(files, n + 1, results)
    ELSE LET r == LoadDocument(FileName(n), files[n])
         IN IF r.raised THEN results
            ELSE DirectoryLoopAbort(files, n + 1, results @@ (FileName(n) :> r.value))

\* the loop of load_directory over the entries with a supported suffix: a
\* file whose load raises is skipped
RECURSIVE DirectoryLoop(_, _, _)
DirectoryLoop(files, n, results) ==
    IF n > Len(files) THEN results
    ELSE IF Lower(files[n].suffix) \notin SUPPORTED_FORMATS
         THEN DirectoryLoop(files, n + 1, results)
    ELSE LET r == LoadDocument(FileName(n), files[n])
         IN DirectoryLoop(files, n + 1,
                          IF r.raised THEN results ELSE results @@ (FileName(n) :> r.value))

\* load_directory
LoadDirectory(is_dir, files) ==
    IF ~is_dir THEN Raise ELSE Ret(DirectoryLoop(files, 1, <<>>))

\* the entries iterdir() yields exist
Directories == SeqsUpTo(Present, MaxFiles)

LoadOne ==
    /\ last = Idle
    /\ \E file \in Paths :
        LET r == LoadDocument(FileName(1), file)
        IN last' = [op |-> "load_document", raised |-> r.raised, value |-> r.value,
                    parsers |-> r.parsers, file |-> file]
    /\ UNCHANGED <<records, exists, vector_store, rag_chain, chat_history, session>>

LoadAll ==
    /\ last = Idle
    /\ \E is_dir \in BOOLEAN, files \in Directories :
        LET r == LoadDirectory(is_dir, files)
        IN last' = [op |-> "load_directory", raised |-> r.raised, value |-> r.value,
                    is_dir |-> is_dir, files |-> files]
    /\ UNCHANGED <<records, exists, vector_store, rag_chain, chat_history, session>>

NextLoader ==
    \/ LoadOne
    \/ LoadAll
    \/ Return

SpecLoader == Init /\ [][NextLoader]_vars

----------------------------------------------------------------------------
(* Properties *)

\* count() as a caller sees it when the backend answers
CountNow == GetDocumentCount(vector_store, records, FALSE).value

\* the batch insert of the held add call on which the backend raised (0: none):
\* the injected one, or the first when the manager's handle does not work
FailedBatch ==
    IF last.documents = <<>> \/ last.batch_size <= 0 THEN 0
    ELSE IF ~Usable(vector_store) THEN 1
    ELSE last.failBatch

\* C1: whenever add on a non-empty chunk sequence returns success=true, count()
\* after the call is count() before it plus len(chunks), documents_added is
\* len(chunks) and total_documents is the new count().
C1_SuccessfulAddCountsEveryChunk ==
    (last.op = "add" /\ last.documents # <<>> /\ last.value.success) =>
        /\ CountNow = Len(last.pre) + Len(last.documents)
        /\ last.value.documents_added = Len(last.documents)
        /\ last.value.total_documents = CountNow

\* C2: when the backend raises on batch j of an add, add returns success=false
\* with an error, the index holds what it held plus the chunks of batches
\* 1..j-1 in order, and batch j is the last one handed to the backend.
C2_FailedBatchLeavesPrefix ==
    (last.op = "add" /\ FailedBatch > 0) =>
        /\ ~last.raised
        /\ last.value.success = FALSE
        /\ "error" \in DOMAIN last.value
        /\ records = last.pre
                \o Slice(last.documents, 0, (FailedBatch - 1) * last.batch_size)
        /\ last.calls = FailedBatch
        /\ last.sent = Slice(last.documents, 0, FailedBatch * last.batch_size)

C2_Witness ==
    /\ last.op = "add"
    /\ FailedBatch = 2
    /\ Len(last.documents) = 3
    /\ last.batch_size = 1
    /\ Len(last.pre) >= 1
    /\ Len(records) = Len(last.pre) + 1

\* C3: when the same add is run again after it failed on batch j and now
\* succeeds, the chunks of batches 1..j-1 are in the index twice: count() is the
\* count before the failed attempt plus len(chunks) plus what that attempt
\* committed.
C3_RerunDuplicatesCommitted ==
    (last.op = "add" /\ last.rerun # NoRerun /\ last.value.success) =>
        /\ records = last.rerun.pre
                \o SubSeq(last.documents, 1, last.rerun.committed)
                \o last.documents
        /\ CountNow = Len(last.rerun.pre) + Len(last.documents) + last.rerun.committed

C3_Witness ==
    /\ last.op = "add"
    /\ last.rerun # NoRerun
    /\ last.value.success
    /\ last.rerun.committed >= 1
    /\ Len(last.rerun.pre) >= 1
    /\ Len(records) = Len(last.rerun.pre) + Len(last.documents) + last.rerun.committed

\* C4: the index is append-only: every step that is not a clear, a failed add
\* included, leaves the records that were there in place and unchanged, ahead
\* of whatever it adds.
C4_AppendOnly ==
    [][last'.op # "clear" => IsPrefix(records, records')]_vars

C4_Witness ==
    /\ last.op = "add"
    /\ last.value.success = FALSE
    /\ FailedBatch >= 2
    /\ Len(last.pre) >= 1
    /\ IsPrefix(last.pre, records)
    /\ Len(records) > Len(last.pre)

\* C5 as stated: after clear(), count() returns 0 and the manager can add again.
C5_ClearThenCountIsZero ==
    last.op = "clear" =>
        /\ CountNow = 0
        /\ AddDocuments(vector_store, records, <<ChunkA>>, 1, FALSE, 0, FALSE)
                .value.success

\* C5, amended: after a clear() that returned true, the collection is empty,
\* count() returns 0 and an add on the same manager goes through.
C5_ClearedWhenClearReturnsTrue ==
    (last.op = "clear" /\ last.value = TRUE) =>
        /\ records = <<>>
        /\ CountNow = 0
        /\ exists
        /\ LET again == AddDocuments(vector_store, records, <<ChunkA>>, 1,
                                     FALSE, 0, FALSE)
           IN again.value.success /\ again.records = <<ChunkA>>

C5_Witness ==
    /\ last.op = "clear"
    /\ last.value = TRUE
    /\ Len(last.pre) >= 2
    /\ CountNow = 0

\* C6: search(query, k) returns at most k results and never more than count().
C6_SearchAtMostK ==
    last.op = "search" =>
        /\ Len(last.value) <= last.k
        /\ Len(last.value) <= CountNow

C6_Witness ==
    /\ last.op = "search"
    /\ Len(last.value) = last.k
    /\ last.k < CountNow

\* C7: with a filter mapping, every returned chunk's metadata equals the filter
\* value on every filter key.
C7_FilterRespected ==
    (last.op = "search" /\ last.filter_dict # NoFilter) =>
        \A i \in 1..Len(last.value) :
            \A key \in DOMAIN last.filter_dict :
                last.value[i][key] = last.filter_dict[key]

C7_Witness ==
    /\ last.op = "search"
    /\ last.filter_dict = [key \in {"source_file"} |-> "a.txt"]
    /\ last.query = "about b"
    /\ \E n \in 1..Len(records) : records[n] = ChunkB
    /\ Len(last.value) >= 1
    /\ last.value[1] = ChunkA

\* C8: search returns the empty sequence, and raises nothing, when the index is
\* empty or the backend's search raises, and the index is as it was.
C8_SearchEmptyOnFailure ==
    (last.op = "search" /\ (last.pre = <<>> \/ last.fail \/ ~Usable(vector_store))) =>
        /\ ~last.raised
        /\ last.value = <<>>
        /\ records = last.pre

C8_Witness ==
    /\ last.op = "search"
    /\ last.fail
    /\ Usable(vector_store)
    /\ Len(records) >= 1
    /\ last.filter_dict = NoFilter
    /\ last.value = <<>>

ManagerOps == {"add", "search", "search_with_score", "count", "clear", "statistics"}
OrchestratorOps == {"query", "stream_query", "batch_query"}

\* C9: no backend failure escapes a Manager or Orchestrator operation as an
\* exception; the operation returns its failure value instead: success=false
\* with an error, the empty sequence, 0, false, an error fragment.
C9_NoExceptionEscapes ==
    /\ last.op \in ManagerOps \cup OrchestratorOps => ~last.raised
    /\ (last.op = "add" /\ FailedBatch > 0) =>
            last.value.success = FALSE /\ "error" \in DOMAIN last.value
    /\ (last.op \in {"search", "search_with_score"} /\ last.fail) => last.value = <<>>
    /\ (last.op = "count" /\ last.fail) => last.value = 0
    /\ (last.op = "clear" /\ last.fd) => last.value = FALSE
    /\ (last.op = "statistics" /\ last.fs /\ ~last.fc /\ Usable(vector_store)
            /\ records # <<>>) => DOMAIN last.value = {"error"}
    /\ (last.op = "query" /\ ~Blank(last.question)
            /\ (\/ last.fault \in {"retrieval", "model"}
                \/ last.fault = "sources" /\ last.return_sources)) =>
            last.value.success = FALSE /\ "error" \in DOMAIN last.value
    /\ (last.op = "stream_query" /\ ~Blank(last.question) /\ last.failAfter = -2) =>
            last.value = <<ErrorFragment>>
    /\ (last.op = "stream_query" /\ last.failed) =>
            last.value[Len(last.value)] = ErrorFragment
    /\ (last.op = "batch_query" /\ last.failSource = -1) =>
            \A i \in 1..Len(last.value) : last.value[i].success = FALSE

C9_Witness ==
    /\ last.op = "query"
    /\ last.fault = "model"
    /\ last.question = "about a"
    /\ Usable(rag_chain.retriever)
    /\ ~last.raised
    /\ last.value.success = FALSE

\* C10: opening a Manager on a collection that holds n records leaves exactly
\* those records there, and the Manager it yields counts n of them, however
\* often it is done.
C10_OpenKeepsRecords ==
    last.op = "open" =>
        /\ records = last.pre
        /\ ~last.raised => (Usable(vector_store) /\ CountNow = Len(last.pre))

C10_Witness ==
    /\ last.op = "open"
    /\ ~last.raised
    /\ last.calls = 2
    /\ Len(last.pre) >= 2
    /\ CountNow = Len(last.pre)

\* C11: for the same starting index and the same chunks, an add that meets no
\* backend failure ends in the same records, in the same order, and the same
\* count() for every batch size >= 1; the batch size only sets the number of
\* backend calls, ceil(len(chunks) / batch_size).
C11_BatchSizeIrrelevant ==
    (last.op = "add" /\ last.documents # <<>> /\ last.batch_size >= 1
        /\ Usable(vector_store) /\ last.failBatch = 0) =>
        /\ records = last.pre \o last.documents
        /\ last.calls = (Len(last.documents) + last.batch_size - 1) \div last.batch_size
        /\ \A b2 \in 1..MaxBatch :
              LET other == AddDocuments(vector_store, last.pre, last.documents, b2,
                                        FALSE, 0, FALSE)
              IN /\ other.records = records
                 /\ GetDocumentCount(vector_store, other.records, FALSE).value = CountNow
                 /\ other.sent = last.sent

C11_Witness ==
    /\ last.op = "add"
    /\ last.value.success
    /\ last.batch_size = 2
    /\ Len(last.documents) = 3
    /\ last.calls = 2
    /\ Len(last.pre) >= 1
    /\ records = last.pre \o last.documents

\* C12: a blank question, empty or whitespace only, reaches no backend: query
\* returns success=false, stream_query yields one error fragment and ends, and
\* neither made a retrieval or a model call.
C12_BlankQuestionReachesNoBackend ==
    /\ (last.op = "query" /\ last.question \in {"", "  "}) =>
            /\ ~last.raised
            /\ last.value.success = FALSE
            /\ "error" \in DOMAIN last.value
            /\ last.retrievals = 0
            /\ last.generations = 0
    /\ (last.op = "stream_query" /\ last.question \in {"", "  "}) =>
            /\ ~last.raised
            /\ last.value = <<"Error: Empty question provided">>
            /\ last.retrievals = 0
            /\ last.generations = 0

C12_Witness ==
    /\ last.op = "stream_query"
    /\ last.question = "  "
    /\ last.failAfter = 0
    /\ Usable(rag_chain.retriever)
    /\ records # <<>>
    /\ Len(last.value) = 1
    /\ last.generations = 0

\* C13: in a successful query with return_sources, the sources carry the index
\* values 1..n in retrieval order, and the citation with index i describes the
\* chunk rendered as "[Source i: ...]" in the context the model was given.
C13_CitationsMatchContext ==
    (last.op = "query" /\ ~last.raised /\ last.value.success /\ last.return_sources) =>
        /\ last.value.num_sources = Len(last.value.sources)
        /\ Len(last.value.sources) = Len(last.context)
        /\ \A i \in 1..Len(last.value.sources) :
              /\ last.value.sources[i].index = i
              /\ i <= Len(last.context) =>
                    /\ last.context[i][2] = i
                    /\ last.value.sources[i].file = last.context[i][3]
                    /\ last.value.sources[i].full_content = last.context[i][4]

\* C14: when the backend fails in the middle of stream_query, the fragments
\* yielded before the failure are kept in order, one error fragment follows
\* them, and the stream ends there without raising; the stream is finite.
C14_StreamFailureKeepsFragments ==
    (last.op = "stream_query" /\ last.question \notin {"", "  "}) =>
        LET docs == Retrieve(rag_chain, last.pre, last.question, FALSE)
            full == LLMFragments(FormatDocs(docs.val), last.question)
        IN /\ ~last.raised
           /\ Len(last.value) <= MaxK + 2
           /\ (docs.exc \/ last.failAfter = -2) => last.value = <<ErrorFragment>>
           /\ (~docs.exc /\ last.failAfter \in 0..Len(full)) =>
                 last.value = SubSeq(full, 1, last.failAfter) \o <<ErrorFragment>>

C14_Witness ==
    /\ last.op = "stream_query"
    /\ last.question = "about a"
    /\ last.failAfter = 2
    /\ Len(last.value) = 3
    /\ last.value[1] = "about a"
    /\ last.value[3] = ErrorFragment

\* C15: on a non-empty index, with a backend that is deterministic and does not
\* fail, the fragments stream_query yields, put together, are the answer text
\* query returns for the same question.
C15_StreamEqualsQuery ==
    (last.op = "stream_query" /\ last.question \notin {"", "  "}
        /\ last.failAfter = -1 /\ records # <<>> /\ Usable(rag_chain.retriever)) =>
        \A return_sources \in BOOLEAN :
            LET q == Query(rag_chain, records, last.question, return_sources,
                           FALSE, FALSE, FALSE)
            IN /\ q.value.success
               /\ Join(last.value) = q.value.answer

C15_Witness ==
    /\ last.op = "stream_query"
    /\ last.question = "about b"
    /\ last.failAfter = -1
    /\ Len(records) >= 2
    /\ Len(last.value) = 3
    /\ Join(last.value) = Query(rag_chain, records, "about b", TRUE,
                                FALSE, FALSE, FALSE).value.answer

\* C16: the citations shown for a streamed answer, built from the caller's own
\* retrieval after the stream has ended, describe the chunks the stream used
\* for its context, in the same order.
C16_StreamedCitationsMatchContext ==
    (last.op = "process_question" /\ last.streaming /\ ~last.raised) =>
        /\ Len(last.sources) = Len(last.context)
        /\ \A i \in 1..Len(last.sources) :
              /\ last.sources[i].index = i
              /\ i <= Len(last.context) =>
                    /\ last.sources[i].file = last.context[i][3]
                    /\ last.sources[i].full_content = last.context[i][4]

\* the question process_question has just handled failed: query returned
\* success=false, or the stream ended with an error fragment
QuestionFailed ==
    IF last.streaming
    THEN /\ last.fragments # <<>>
         /\ last.fragments[Len(last.fragments)]
                \in {ErrorFragment, "Error: Empty question provided"}
    ELSE ~last.success

\* C18: a failed question shows an error and adds nothing to chat_history, in
\* the streaming and in the non-streaming path; chat_history grows by one entry
\* exactly for a question that was answered.
C18_FailedQuestionAddsNoHistory ==
    last.op = "process_question" =>
        /\ QuestionFailed =>
              /\ last.error_shown \/ last.streaming
              /\ chat_history = last.history
        /\ (~QuestionFailed /\ ~last.raised) =>
              chat_history = Append(last.history,
                                    ChatEntry(last.question, last.answer, last.sources))
        /\ Len(chat_history) <= Len(last.history) + 1

\* C17: when the batch call of batch_query fails, the result has one entry per
\* question, in the order of the questions, each with success=false and the
\* same error text; none reports success.
C17_FailedBatchFailsEveryQuestion ==
    (last.op = "batch_query"
        /\ (last.failSource = -1 \/ (last.failSource > 0 /\ last.return_sources))) =>
        /\ ~last.raised
        /\ Len(last.value) = Len(last.questions)
        /\ \A i \in 1..Len(last.value) :
              /\ last.value[i].success = FALSE
              /\ last.value[i].question = last.questions[i]
              /\ "error" \in DOMAIN last.value[i]
              /\ last.value[i].error = last.value[1].error

C17_Witness ==
    /\ last.op = "batch_query"
    /\ last.failSource = -1
    /\ last.questions = <<"about b", "  ">>
    /\ records # <<>>
    /\ Usable(rag_chain.retriever)
    /\ Len(last.value) = 2
    /\ last.value[2].success = FALSE

\* C19: with chunk_size S >= 1, an overlap below S and the default separators,
\* every chunk process emits has a content of at most S characters.
C19_ChunkWithinSize ==
    (last.op = "process" /\ last.chunk_overlap < last.chunk_size) =>
        /\ ~last.raised
        /\ \A i \in 1..Len(last.value) :
              /\ Len(last.value[i].page_content) <= last.chunk_size
              /\ last.value[i].page_content # <<>>
              /\ last.value[i].page_content
                    = SubSeq(last.documents[last.value[i].doc],
                             last.value[i].from, last.value[i].to)

C19_Witness ==
    /\ last.op = "process"
    /\ last.documents = << <<"a", ",", " ", "a", "a">> >>
    /\ last.chunk_size = 2
    /\ last.chunk_overlap = 1
    /\ Len(last.value) >= 3
    /\ \E i \in 1..Len(last.value) : Len(last.value[i].page_content) = 2

\* the characters of the document two chunks both cover
SpanOverlap(c, d) ==
    IF c.to >= d.from /\ d.to >= c.from
    THEN Min(c.to, d.to) - (IF c.from > d.from THEN c.from ELSE d.from) + 1
    ELSE 0

\* C20: two adjacent chunks of the same document share at most chunk_overlap
\* characters of it, the end of the earlier one being the start of the later.
C20_OverlapWithinBound ==
    (last.op = "process" /\ ~last.raised) =>
        \A i \in 1..(Len(last.value) - 1) :
            LET c == last.value[i]
                d == last.value[i + 1]
            IN c.doc = d.doc =>
                  /\ SpanOverlap(c, d) <= last.chunk_overlap
                  /\ c.from <= d.from
                  /\ c.to <= d.to

C20_Witness ==
    /\ last.op = "process"
    /\ last.chunk_size = 3
    /\ last.chunk_overlap = 2
    /\ Len(last.value) >= 2
    /\ last.value[1].doc = last.value[2].doc
    /\ SpanOverlap(last.value[1], last.value[2]) = 2

\* C21: process on no documents, or on one document with empty content,
\* returns no chunks and raises nothing.
C21_EmptyInputNoChunks ==
    (last.op = "process" /\ last.chunk_overlap <= last.chunk_size
        /\ (last.documents = <<>> \/ last.documents = << <<>> >>)) =>
        /\ ~last.raised
        /\ last.value = <<>>

C21_Witness ==
    /\ last.op = "process"
    /\ last.documents = << <<>> >>
    /\ last.chunk_size = 2
    /\ last.chunk_overlap = 1
    /\ ~last.raised
    /\ last.value = <<>>

\* C22: the chunk_id values of the chunks of one process call are 0, 1, ...,
\* n-1 in emission order, numbered across the whole batch of documents.
C22_ChunkIdsContiguous ==
    (last.op = "process" /\ ~last.raised) =>
        /\ \A i \in 1..Len(last.value) : last.value[i].chunk_id = i - 1
        /\ \A i \in 1..(Len(last.value) - 1) : last.value[i].doc <= last.value[i + 1].doc

C22_Witness ==
    /\ last.op = "process"
    /\ Len(last.documents) = 2
    /\ Len(last.value) = 4
    /\ last.value[2].doc = 1
    /\ last.value[3].doc = 2
    /\ last.value[3].chunk_id = 2
    /\ last.value[4].chunk_id = 3

C24_RecommendationsMatchTriggers ==
    (last.op = "analyze" /\ last.chunks # <<>>) =>
        LET chunks == last.chunks
            n == Len(chunks)
            recs == last.value.recommendations
            small == Cardinality({i \in 1..n :
                        Len(chunks[i].page_content) * 10 < last.chunk_size * 3})
            large == Cardinality({i \in 1..n :
                        Len(chunks[i].page_content) * 10 > last.chunk_size * 15})
            low == Cardinality({i \in 2..n : chunks[i].page_content[1] = "a"})
            fired == (IF small * 10 > n THEN {VerySmall(small)} ELSE {})
                     \cup (IF large * 10 > n THEN {VeryLarge(large)} ELSE {})
                     \cup (IF low * 100 > n * 15 THEN {MidSentence(low)} ELSE {})
            given == {recs[i] : i \in 1..Len(recs)}
        IN /\ ~last.raised
           /\ recs # <<>>
           /\ recs = <<LooksGood>> <=> fired = {}
           /\ fired # {} => /\ given = fired
                            /\ Len(recs) = Cardinality(fired)
           /\ last.value.quality_metrics.chunks_with_low_context = low
           /\ low <= n - 1

C24_Witness ==
    /\ last.op = "analyze"
    /\ Len(last.chunks) >= 2
    /\ last.chunks[1].page_content[1] = "a"
    /\ last.chunks[2].page_content[1] # "a"
    /\ last.value.recommendations = <<LooksGood>>

\* C26: load_document rejects a missing path, a path that is no file, an
\* unsupported extension and a file over the size limit before any parser is
\* called; load_directory skips a file whose load fails and returns every
\* other supported file that loaded.
C26_ValidationBeforeParsing ==
    /\ last.op = "load_document" =>
          LET f == last.file
              rejected == \/ ~f.exists
                          \/ ~f.is_file
                          \/ f.suffix \notin {".pdf", ".PDF", ".txt", ".docx"}
                          \/ f.size > 50 * 1024 * 1024
          IN /\ rejected => last.raised /\ last.parsers = <<>>
             /\ ~rejected => Len(last.parsers) = 1 /\ (last.raised <=> ~f.parses)
    /\ (last.op = "load_directory" /\ last.is_dir) =>
          LET loaded == {n \in 1..Len(last.files) :
                            LET f == last.files[n]
                            IN /\ f.is_file
                               /\ f.suffix \in {".pdf", ".PDF", ".txt", ".docx"}
                               /\ f.size <= 50 * 1024 * 1024
                               /\ f.parses}
          IN /\ ~last.raised
             /\ DOMAIN last.value = {FileName(n) : n \in loaded}
             /\ \A n \in loaded : last.value[FileName(n)][1].source_file = FileName(n)

C26_Witness ==
    /\ last.op = "load_directory"
    /\ last.is_dir
    /\ Len(last.files) = 2
    /\ last.files[1].is_file /\ last.files[1].suffix = ".txt"
    /\ last.files[1].size = 0 /\ ~last.files[1].parses
    /\ DOMAIN last.value = {FileName(2)}

\* C25: no operation issues a backend call again after that call failed, and
\* the failure is reported to the caller: an open whose Chroma(...) call
\* raised has made that one call and raises, an add whose batch insert raised
\* has made no insert after it and returns success = false.
C25_NoRetryAfterFailure ==
    /\ (last.op = "open" /\ last.first_failed) =>
          /\ last.calls = 1
          /\ last.raised
    /\ (last.op = "add" /\ last.failed > 0) =>
          /\ last.calls = last.failed
          /\ ~last.raised
          /\ ~last.value.success

\* C27: for every batch_size, zero and negative ones included, an add of a
\* non-empty chunk sequence that returns success = true has passed every chunk
\* of its input to the backend exactly once, in order, and has inserted no
\* fewer than len(chunks) records.
C27_SuccessMeansEveryChunkSent ==
    (last.op = "add" /\ last.documents # <<>> /\ ~last.raised /\ last.value.success) =>
        /\ last.sent = last.documents
        /\ Len(records) - Len(last.pre) >= Len(last.documents)

\* C28: in the session of the application, after every run of the page
\* (load, Process & Index, Clear All Documents, Refresh System, a settings
\* change), failing backend calls included, documents_indexed is true exactly
\* when the manager's count() is greater than 0.
C28_IndexedFlagMatchesCount ==
    (session.loaded /\ last.op \in {"visit", "settings", "clear_all", "refresh", "index"}) =>
        (session.documents_indexed <=> CountNow > 0)

\* C29: process_question never runs without a RAGChain: a question submitted
\* while documents_indexed is true is processed with the chain load_rag_chain
\* built, also when count() reports 0 at that moment.
C29_QuestionHasChain ==
    (last.op = "question" /\ last.indexed /\ ~last.raised) =>
        /\ last.processed
        /\ last.chain # NoChain

\* C30: a RAGChain the session holds was built with the k_documents and the
\* temperature of the current settings, and its retriever is bound to the
\* Chroma object the session's manager holds now, on a collection that exists:
\* every settings change, Clear All Documents, Refresh System and successful
\* indexing of the session drops the chain before the next question.
C30_ChainIsCurrent ==
    rag_chain # NoChain =>
        /\ session.loaded
        /\ rag_chain.k_documents = session.settings.k_documents
        /\ rag_chain.temperature = session.settings.temperature
        /\ rag_chain.store = session.store
        /\ rag_chain.retriever = vector_store
        /\ Usable(rag_chain.retriever)

C30_Witness ==
    /\ last.op = "question"
    /\ last.processed
    /\ rag_chain # NoChain
    /\ rag_chain.k_documents = 1
    /\ rag_chain.temperature = 0
    /\ rag_chain.store = 3

====
